---- MODULE Spec2Model ----
(***************************************************************************)
(* Verification model of the operator console (smartmeterapplication).     *)
(*                                                                         *)
(* Two state machines live in this module:                                 *)
(*   SpecDash - the dashboard polling / pagination engine                  *)
(*              (components/dashboard-page.tsx, final revision)            *)
(*   SpecApp  - the router, the session stores and the login / logout flow *)
(*              (app/App.tsx, components/auth-page.tsx, config/api.ts)     *)
(* Values of React state are the values of the last committed render; a    *)
(* handler runs to its first await in one step, every resolution of an     *)
(* awaited network call is a step of its own.                              *)
(***************************************************************************)
EXTENDS Integers, Sequences, FiniteSets, Bags, TLC

(***************************************************************************)
(* Bounds of the model (not program constants).                            *)
(***************************************************************************)
MaxPage == 3
MaxRequests == 4
MaxRows == 1
MaxLogins == 2
MaxLogouts == 1
MaxPosts == 2
MaxNow == 4
MaxLlsCalls == 2
MaxUserCalls == 2

(***************************************************************************)
(* Program constants.                                                      *)
(***************************************************************************)
DEFAULT_LIMIT == 10

(***************************************************************************)
(* Values.  A NextPageKey {id: string} is represented by its id; "null" is *)
(* the null key and "" a key object whose id is empty.                     *)
(***************************************************************************)
NullKey == "null"
KeyIds == {"k1", "k2"}
NextPageKeys == KeyIds \cup {NullKey, ""}
TransactionIds == {"t1"}

MsgWait == "Please wait for the current request to complete"
MsgNoMore == "No more records available"
MsgBadKey == "Invalid pagination key. Please refresh the page."
MsgFirst == "You are on the first page"
MsgPagErr == "Pagination error. Please refresh the page."
MsgNoToken == "Authentication token not found. Please login again."
MsgRefreshed == "Data refreshed successfully"
MsgLoadFail == "Failed to load log collections. Please try again."

VARIABLES
  \* ---- dashboard component state (useState) ----
  tableData,            \* rows on screen: sequence of [sNo, taskId]
  isLoading,
  currentNextKey,       \* next_page_key of the last applied response
  previousKeys,         \* cursor history
  currentPage,
  \* ---- dashboard refs (useRef) ----
  isFetchingRef,
  currentRequestIdRef,
  pollClosure,          \* currentPage / previousKeys captured by the interval callback
  \* ---- environment of the dashboard ----
  inflight,             \* list requests sent and not yet resolved
  hasToken,             \* getAuthToken() finds a token
  mounted,              \* the mount effect has run
  toast,                \* last toast message shown
  \* ---- history variables (observation only) ----
  lastOp,               \* operation performed by the last step
  lastAccepted,         \* that operation passed its guards
  lastFetch,            \* arguments of the last fetchLogCollections call
  rowsFrom,             \* id of the request whose outcome last wrote tableData
  nextKeyFrom,          \* id of the request whose response last wrote currentNextKey
  lastResolved,         \* highest id among the requests that have resolved
  lastOk,               \* highest id among the requests that resolved with 2xx JSON
  lastResponseKey,      \* next-cursor returned by the last resolved request (null on failure)
  prevNav,              \* pagination state just before the last accepted page change
  nextKeyPage,          \* page number of the request whose response last wrote currentNextKey
  keyPages,             \* for each entry of previousKeys, the page number of the request
                        \* whose response returned it
  \* ---- browser storage ----
  localStore,           \* localStorage (durable): session key -> value
  sessionStore,         \* sessionStorage (ephemeral): session key -> value
  \* ---- App component state (useState) ----
  mountedPage,          \* App's currentPage: the screen that is mounted
  userName,
  userEmail,
  userRole,
  selectedLabId,
  selectedCabinetId,
  isCheckingAuth,
  \* ---- AuthPage component state ----
  authIsLoading,        \* isLoading of the mounted AuthPage instance
  \* ---- network calls of the App / AuthPage that have not resolved ----
  logins,               \* bag of login POSTs in flight: [email, remember, live]
  logouts,              \* bag of logout GETs in flight: [bearer]
  \* ---- history variables (observation only) ----
  lastAppOp,            \* operation performed by the last step
  lastLogin,            \* the login attempt the last step resolved (NoLogin otherwise)
  lastLogout,           \* status of the logout call the last step resolved (NoCall otherwise)
  \* ---- SetDetailsPage props and component state (useState) ----
  isActiveSet,
  taskDescription,
  startDate,
  startTime,
  endDate,
  endTime,
  logTypes,             \* [CH, HAN]
  chLogFormat,
  hanLogFormat,
  isSubmitting,
  \* ---- environment of the set-details screen ----
  now,                  \* wall clock (new Date())
  posts,                \* bag of log-collection POSTs in flight
  timers,               \* number of armed setTimeout(onBackToDashboard, 2000)
  \* ---- history variables (observation only) ----
  lastSetOp,            \* operation performed by the last step
  lastPost,             \* outcome of the POST the last step resolved (NoPost otherwise)
  \* ---- LabsPage component state (useState) ----
  selectedLab,
  selectedManufacture,
  selectedVariant,
  selectedSet,
  labs,
  cabinetData,
  chManufactures,
  chVariants,
  allSets,
  deviceInfoMap,
  isLoadingLabs,
  isLoadingLabDetails,
  \* ---- environment of the lab screen ----
  labsToken,            \* getAuthToken() finds a token
  labsMounted,          \* the mount effect has run
  labsCall,             \* the labs GET is in flight
  llsCalls,             \* bag of LLS inventory POSTs in flight: [lab]
  \* ---- history variables (observation only) ----
  setsFrom,             \* lab and response body that allSets was generated from
  lastOpened,           \* arguments of the onSelectSet call (NoOpen before it)
  lastLabOp,            \* operation performed by the last step
  lastLls,              \* outcome of the LLS call the last step resolved (NoLls otherwise)
  \* ---- users screen (users-page.tsx) ----
  users,                \* the user list of the table
  usersIsLoading,       \* isLoading
  isDeletingUser,
  usersMounted,         \* the mount effect has run
  listCalls,            \* bag of list GETs in flight
  deleteCalls,          \* bag of delete POSTs in flight: [user_id]
  \* ---- history variables (observation only) ----
  lastUserOp,           \* operation performed by the last step
  lastList,             \* response of the list GET the last step resolved (NoList otherwise)
  lastDelete            \* user and confirmation of the handleDeleteUser call of the
                        \* last step (NoDelete otherwise)

dashVars == <<tableData, isLoading, currentNextKey, previousKeys, currentPage,
              isFetchingRef, currentRequestIdRef, pollClosure, inflight, hasToken,
              mounted, toast, lastOp, lastAccepted, lastFetch, rowsFrom, nextKeyFrom,
              lastResolved, lastOk, lastResponseKey, prevNav, nextKeyPage, keyPages>>

appVars == <<localStore, sessionStore, mountedPage, userName, userEmail, userRole,
             selectedLabId, selectedCabinetId, isCheckingAuth, authIsLoading,
             logins, logouts, lastAppOp, lastLogin, lastLogout>>

\* The App state that the screens below the router cannot change
appFrame == <<userName, userEmail, userRole, selectedLabId, selectedCabinetId,
              isCheckingAuth, authIsLoading, logins, logouts, lastAppOp, lastLogin,
              lastLogout>>

formVars == <<taskDescription, startDate, startTime, endDate, endTime, logTypes,
              chLogFormat, hanLogFormat>>

setVars == <<isActiveSet, formVars, isSubmitting, now, posts, timers, lastSetOp,
             lastPost>>

labVars == <<selectedLab, selectedManufacture, selectedVariant, selectedSet, labs,
             cabinetData, chManufactures, chVariants, allSets, deviceInfoMap,
             isLoadingLabs, isLoadingLabDetails, labsToken, labsMounted, labsCall,
             llsCalls, setsFrom, lastOpened, lastLabOp, lastLls>>

usersVars == <<users, usersIsLoading, isDeletingUser, usersMounted, listCalls,
               deleteCalls, lastUserOp, lastList, lastDelete>>

\* The screens that are modelled on their own
pageVars == <<setVars, labVars, usersVars>>

vars == <<dashVars, appVars, pageVars>>

(***************************************************************************)
(* Helpers                                                                 *)
(***************************************************************************)
Max(a, b) == IF a >= b THEN a ELSE b

\* JavaScript truthiness of a NextPageKey | null | undefined value
Truthy(k) == k # NullKey

\* array[index] with a 0-based index; undefined (null) outside the array
At0(arr, i) == IF i >= 0 /\ i < Len(arr) THEN arr[i + 1] ELSE NullKey

\* [...arr] followed by pop()
Pop(arr) == IF Len(arr) = 0 THEN arr ELSE SubSeq(arr, 1, Len(arr) - 1)

\* A 2xx JSON body of the list endpoint
Responses ==
  { [next_page_key |-> k, log_collections |-> l] :
      k \in NextPageKeys,
      l \in UNION { [1..n -> TransactionIds] : n \in 0..MaxRows } }

\* processApiResponse: rows numbered from the page number of the request
MappedData(data, pageNumber) ==
  [ i \in 1..Len(data.log_collections) |->
      [ sNo |-> (pageNumber - 1) * DEFAULT_LIMIT + (i - 1) + 1,
        taskId |-> data.log_collections[i] ] ]

Abort(r) == [r EXCEPT !.aborted = TRUE]

\* The interval callback is re-created by the effect that depends on currentPage
PollClosureAfter(newPage, newKeys) ==
  IF newPage # currentPage
    THEN [currentPage |-> newPage, previousKeys |-> newKeys]
    ELSE pollClosure

(***************************************************************************)
(* fetchLogCollections up to its first await.  The caller has already set  *)
(* isFetchingRef.current = true.  msg is the toast left by the caller.     *)
(***************************************************************************)
FetchLogCollections(nextPageKey, showToast, pageNumber, msg) ==
  LET thisRequestId == currentRequestIdRef + 1 IN
  /\ currentRequestIdRef' = thisRequestId
  /\ lastFetch' = [id |-> thisRequestId, nextPageKey |-> nextPageKey,
                   pageNumber |-> pageNumber, showToast |-> showToast]
  /\ IF hasToken
       THEN /\ inflight' = { Abort(r) : r \in inflight } \cup
                           { [id |-> thisRequestId, nextPageKey |-> nextPageKey,
                              pageNumber |-> pageNumber, showToast |-> showToast,
                              aborted |-> FALSE] }
            /\ isLoading' = TRUE
            /\ isFetchingRef' = TRUE
            /\ toast' = msg
       ELSE /\ inflight' = { Abort(r) : r \in inflight }
            /\ isLoading' = FALSE
            /\ isFetchingRef' = FALSE
            /\ toast' = MsgNoToken

\* A handler call that returns early: only the toast changes
Rejected(op, msg) ==
  /\ lastOp' = op
  /\ lastAccepted' = FALSE
  /\ toast' = msg
  /\ UNCHANGED <<tableData, isLoading, currentNextKey, previousKeys, keyPages, currentPage,
                 isFetchingRef, currentRequestIdRef, pollClosure, inflight, hasToken,
                 mounted, lastFetch, rowsFrom, nextKeyFrom, nextKeyPage, lastResolved, lastOk,
                 lastResponseKey, prevNav>>

\* Cursor of the request that reproduces page p under history keys
CursorOfPage(p, keys) == IF p = 1 THEN NullKey ELSE At0(keys, p - 2)

Snapshot(op) == [op |-> op, before |-> prevNav.op, currentPage |-> currentPage,
                 previousKeys |-> previousKeys,
                 cursor |-> CursorOfPage(currentPage, previousKeys)]

(***************************************************************************)
(* Mount effect: the initial fetch of page 1                               *)
(***************************************************************************)
MountEffect ==
  /\ UNCHANGED <<appVars, pageVars>>
  /\ ~mounted
  /\ mounted' = TRUE
  /\ lastOp' = "mount"
  /\ pollClosure' = [currentPage |-> currentPage, previousKeys |-> previousKeys]
  /\ IF ~isFetchingRef
       THEN /\ lastAccepted' = TRUE
            /\ FetchLogCollections(NullKey, FALSE, 1, toast)
       ELSE /\ lastAccepted' = FALSE
            /\ UNCHANGED <<isLoading, isFetchingRef, currentRequestIdRef, inflight,
                           toast, lastFetch>>
  /\ UNCHANGED <<tableData, currentNextKey, previousKeys, keyPages, currentPage, hasToken,
                 rowsFrom, nextKeyFrom, nextKeyPage, lastResolved, lastOk, lastResponseKey, prevNav>>

(***************************************************************************)
(* handleNextPage                                                          *)
(***************************************************************************)
\* Variant of handleNextPage without the isFetchingRef check
HandleNextPageUnguarded ==
  /\ UNCHANGED <<appVars, pageVars>>
  /\ mounted
  /\ IF ~Truthy(currentNextKey) THEN Rejected("next", MsgNoMore)
     ELSE IF currentNextKey = "" THEN Rejected("next", MsgBadKey)
     ELSE
       LET nextPage == currentPage + 1
           newPreviousKeys == Append(previousKeys, currentNextKey) IN
       /\ currentPage < MaxPage
       /\ currentRequestIdRef < MaxRequests
       /\ lastOp' = "next"
       /\ lastAccepted' = TRUE
       /\ prevNav' = Snapshot("next")
       /\ previousKeys' = newPreviousKeys
       /\ keyPages' = Append(keyPages, nextKeyPage)
       /\ currentPage' = nextPage
       /\ pollClosure' = PollClosureAfter(nextPage, newPreviousKeys)
       /\ FetchLogCollections(currentNextKey, FALSE, nextPage, toast)
       /\ UNCHANGED <<tableData, currentNextKey, hasToken, mounted, rowsFrom,
                      nextKeyFrom, nextKeyPage, lastResolved, lastOk, lastResponseKey>>

HandleNextPage ==
  /\ UNCHANGED <<appVars, pageVars>>
  /\ mounted
  /\ IF isFetchingRef THEN Rejected("next", MsgWait)
     ELSE IF ~Truthy(currentNextKey) THEN Rejected("next", MsgNoMore)
     ELSE IF currentNextKey = "" THEN Rejected("next", MsgBadKey)
     ELSE
       LET nextPage == currentPage + 1
           newPreviousKeys == Append(previousKeys, currentNextKey) IN
       /\ currentPage < MaxPage
       /\ currentRequestIdRef < MaxRequests
       /\ lastOp' = "next"
       /\ lastAccepted' = TRUE
       /\ prevNav' = Snapshot("next")
       /\ previousKeys' = newPreviousKeys
       /\ keyPages' = Append(keyPages, nextKeyPage)
       /\ currentPage' = nextPage
       /\ pollClosure' = PollClosureAfter(nextPage, newPreviousKeys)
       /\ FetchLogCollections(currentNextKey, FALSE, nextPage, toast)
       /\ UNCHANGED <<tableData, currentNextKey, hasToken, mounted, rowsFrom,
                      nextKeyFrom, nextKeyPage, lastResolved, lastOk, lastResponseKey>>

(***************************************************************************)
(* handlePreviousPage                                                      *)
(***************************************************************************)
\* Variant of handlePreviousPage that keeps the last history entry (no pop)
HandlePreviousPageNoPop ==
  /\ UNCHANGED <<appVars, pageVars>>
  /\ mounted
  /\ LET prevPage == currentPage - 1
         keyForPrevPage == IF prevPage = 1 THEN NullKey
                           ELSE At0(previousKeys, prevPage - 2) IN
     IF isFetchingRef THEN Rejected("prev", MsgWait)
     ELSE IF currentPage = 1 THEN Rejected("prev", MsgFirst)
     ELSE
       /\ currentRequestIdRef < MaxRequests
       /\ lastOp' = "prev"
       /\ lastAccepted' = TRUE
       /\ prevNav' = Snapshot("prev")
       /\ previousKeys' = previousKeys
       /\ keyPages' = keyPages
       /\ currentPage' = prevPage
       /\ pollClosure' = PollClosureAfter(prevPage, previousKeys)
       /\ FetchLogCollections(keyForPrevPage, FALSE, prevPage, toast)
       /\ UNCHANGED <<tableData, currentNextKey, hasToken, mounted, rowsFrom,
                      nextKeyFrom, nextKeyPage, lastResolved, lastOk, lastResponseKey>>

\* Variant of handlePreviousPage that fetches with the popped entry history[page-1]
HandlePreviousPageWrongKey ==
  /\ UNCHANGED <<appVars, pageVars>>
  /\ mounted
  /\ LET prevPage == currentPage - 1
         keyForPrevPage == At0(previousKeys, prevPage - 1)
         newPreviousKeys == Pop(previousKeys) IN
     IF isFetchingRef THEN Rejected("prev", MsgWait)
     ELSE IF currentPage = 1 THEN Rejected("prev", MsgFirst)
     ELSE
       /\ currentRequestIdRef < MaxRequests
       /\ lastOp' = "prev"
       /\ lastAccepted' = TRUE
       /\ prevNav' = Snapshot("prev")
       /\ previousKeys' = newPreviousKeys
       /\ keyPages' = Pop(keyPages)
       /\ currentPage' = prevPage
       /\ pollClosure' = PollClosureAfter(prevPage, newPreviousKeys)
       /\ FetchLogCollections(keyForPrevPage, FALSE, prevPage, toast)
       /\ UNCHANGED <<tableData, currentNextKey, hasToken, mounted, rowsFrom,
                      nextKeyFrom, nextKeyPage, lastResolved, lastOk, lastResponseKey>>

HandlePreviousPage ==
  /\ UNCHANGED <<appVars, pageVars>>
  /\ mounted
  /\ LET prevPage == currentPage - 1
         requiredKeyIndex == prevPage - 2
         keyForPrevPage == IF prevPage = 1 THEN NullKey
                           ELSE At0(previousKeys, prevPage - 2)
         newPreviousKeys == Pop(previousKeys) IN
     IF isFetchingRef THEN Rejected("prev", MsgWait)
     ELSE IF currentPage = 1 THEN Rejected("prev", MsgFirst)
     ELSE IF prevPage > 1 /\ (requiredKeyIndex < 0 \/ requiredKeyIndex >= Len(previousKeys))
       THEN Rejected("prev", MsgPagErr)
     ELSE IF prevPage # 1 /\ ~Truthy(keyForPrevPage) THEN Rejected("prev", MsgPagErr)
     ELSE IF prevPage # 1 /\ keyForPrevPage = "" THEN Rejected("prev", MsgBadKey)
     ELSE
       /\ currentRequestIdRef < MaxRequests
       /\ lastOp' = "prev"
       /\ lastAccepted' = TRUE
       /\ prevNav' = Snapshot("prev")
       /\ previousKeys' = newPreviousKeys
       /\ keyPages' = Pop(keyPages)
       /\ currentPage' = prevPage
       /\ pollClosure' = PollClosureAfter(prevPage, newPreviousKeys)
       /\ FetchLogCollections(keyForPrevPage, FALSE, prevPage, toast)
       /\ UNCHANGED <<tableData, currentNextKey, hasToken, mounted, rowsFrom,
                      nextKeyFrom, nextKeyPage, lastResolved, lastOk, lastResponseKey>>

(***************************************************************************)
(* handleRefresh                                                           *)
(***************************************************************************)
\* Variant of handleRefresh without the isFetchingRef check
HandleRefreshUnguarded ==
  /\ UNCHANGED <<appVars, pageVars>>
  /\ mounted
  /\ currentRequestIdRef < MaxRequests
  /\ lastOp' = "refresh"
  /\ lastAccepted' = TRUE
  /\ prevNav' = Snapshot("refresh")
  /\ previousKeys' = <<>>
  /\ keyPages' = <<>>
  /\ currentPage' = 1
  /\ pollClosure' = PollClosureAfter(1, <<>>)
  /\ FetchLogCollections(NullKey, TRUE, 1, toast)
  /\ UNCHANGED <<tableData, currentNextKey, hasToken, mounted, rowsFrom,
                 nextKeyFrom, nextKeyPage, lastResolved, lastOk, lastResponseKey>>

\* Variant of handleRefresh that keeps the cursor history
HandleRefreshKeepsHistory ==
  /\ UNCHANGED <<appVars, pageVars>>
  /\ mounted
  /\ IF isFetchingRef THEN Rejected("refresh", MsgWait)
     ELSE
       /\ currentRequestIdRef < MaxRequests
       /\ lastOp' = "refresh"
       /\ lastAccepted' = TRUE
       /\ prevNav' = Snapshot("refresh")
       /\ previousKeys' = previousKeys
       /\ keyPages' = keyPages
       /\ currentPage' = 1
       /\ pollClosure' = PollClosureAfter(1, previousKeys)
       /\ FetchLogCollections(NullKey, TRUE, 1, toast)
       /\ UNCHANGED <<tableData, currentNextKey, hasToken, mounted, rowsFrom,
                      nextKeyFrom, nextKeyPage, lastResolved, lastOk, lastResponseKey>>

HandleRefresh ==
  /\ UNCHANGED <<appVars, pageVars>>
  /\ mounted
  /\ IF isFetchingRef THEN Rejected("refresh", MsgWait)
     ELSE
       /\ currentRequestIdRef < MaxRequests
       /\ lastOp' = "refresh"
       /\ lastAccepted' = TRUE
       /\ prevNav' = Snapshot("refresh")
       /\ previousKeys' = <<>>
       /\ keyPages' = <<>>
       /\ currentPage' = 1
       /\ pollClosure' = PollClosureAfter(1, <<>>)
       /\ FetchLogCollections(NullKey, TRUE, 1, toast)
       /\ UNCHANGED <<tableData, currentNextKey, hasToken, mounted, rowsFrom,
                      nextKeyFrom, nextKeyPage, lastResolved, lastOk, lastResponseKey>>

(***************************************************************************)
(* Polling interval callback                                               *)
(***************************************************************************)
\* Variant of the interval callback that always reloads the first page
PollTickFirstPage ==
  /\ UNCHANGED <<appVars, pageVars>>
  /\ mounted
  /\ lastOp' = "poll"
  /\ IF ~isFetchingRef
       THEN /\ currentRequestIdRef < MaxRequests
            /\ lastAccepted' = TRUE
            /\ FetchLogCollections(NullKey, FALSE, 1, toast)
       ELSE /\ lastAccepted' = FALSE
            /\ UNCHANGED <<isLoading, isFetchingRef, currentRequestIdRef, inflight,
                           toast, lastFetch>>
  /\ UNCHANGED <<tableData, currentNextKey, previousKeys, keyPages, currentPage, pollClosure,
                 hasToken, mounted, rowsFrom, nextKeyFrom, nextKeyPage, lastResolved, lastOk,
                 lastResponseKey, prevNav>>

\* Variant of the interval callback without the isFetchingRef check
PollTickUnguarded ==
  /\ UNCHANGED <<appVars, pageVars>>
  /\ mounted
  /\ lastOp' = "poll"
  /\ LET pollCurrentPage == pollClosure.currentPage
         pollPreviousKeys == pollClosure.previousKeys
         currentKeyForRefresh ==
           IF pollCurrentPage = 1 THEN NullKey
           ELSE At0(pollPreviousKeys, pollCurrentPage - 2) IN
     /\ currentRequestIdRef < MaxRequests
     /\ lastAccepted' = TRUE
     /\ FetchLogCollections(currentKeyForRefresh, FALSE, pollCurrentPage, toast)
  /\ UNCHANGED <<tableData, currentNextKey, previousKeys, keyPages, currentPage, pollClosure,
                 hasToken, mounted, rowsFrom, nextKeyFrom, nextKeyPage, lastResolved, lastOk,
                 lastResponseKey, prevNav>>

PollTick ==
  /\ UNCHANGED <<appVars, pageVars>>
  /\ mounted
  /\ lastOp' = "poll"
  /\ IF ~isFetchingRef
       THEN LET pollCurrentPage == pollClosure.currentPage
                pollPreviousKeys == pollClosure.previousKeys
                currentKeyForRefresh ==
                  IF pollCurrentPage = 1 THEN NullKey
                  ELSE At0(pollPreviousKeys, pollCurrentPage - 2) IN
            /\ currentRequestIdRef < MaxRequests
            /\ lastAccepted' = TRUE
            /\ FetchLogCollections(currentKeyForRefresh, FALSE, pollCurrentPage, toast)
       ELSE /\ lastAccepted' = FALSE
            /\ UNCHANGED <<isLoading, isFetchingRef, currentRequestIdRef, inflight,
                           toast, lastFetch>>
  /\ UNCHANGED <<tableData, currentNextKey, previousKeys, keyPages, currentPage, pollClosure,
                 hasToken, mounted, rowsFrom, nextKeyFrom, nextKeyPage, lastResolved, lastOk,
                 lastResponseKey, prevNav>>

(***************************************************************************)
(* Resolution of a list request: 2xx with a JSON body                      *)
(***************************************************************************)
FetchSuccess(r, data) ==
  /\ UNCHANGED <<appVars, pageVars>>
  /\ r \in inflight
  /\ ~r.aborted
  /\ inflight' = inflight \ {r}
  /\ lastOp' = "success"
  /\ lastResolved' = Max(lastResolved, r.id)
  /\ lastOk' = Max(lastOk, r.id)
  /\ lastResponseKey' = data.next_page_key
  /\ IF r.id # currentRequestIdRef
       THEN \* stale response, discarded
            /\ lastAccepted' = FALSE
            /\ UNCHANGED <<tableData, currentNextKey, toast, rowsFrom, nextKeyFrom, nextKeyPage>>
       ELSE /\ lastAccepted' = TRUE
            /\ currentNextKey' = data.next_page_key
            /\ tableData' = MappedData(data, r.pageNumber)
            /\ rowsFrom' = r.id
            /\ nextKeyFrom' = r.id
            /\ nextKeyPage' = r.pageNumber
            /\ toast' = IF r.showToast THEN MsgRefreshed ELSE toast
  \* finally
  /\ isFetchingRef' = FALSE
  /\ isLoading' = FALSE
  /\ UNCHANGED <<previousKeys, keyPages, currentPage, currentRequestIdRef, pollClosure, hasToken,
                 mounted, lastFetch, prevNav>>

(***************************************************************************)
(* Resolution of a list request: 401, 404, 5xx, other non-2xx, non-JSON    *)
(* body, network failure or abort - every one of them ends in the catch    *)
(***************************************************************************)
\* Variant of the failure path without the finally block
FetchFailureNoFinally(r) ==
  /\ UNCHANGED <<appVars, pageVars>>
  /\ r \in inflight
  /\ inflight' = inflight \ {r}
  /\ lastOp' = "failure"
  /\ lastAccepted' = TRUE
  /\ lastResolved' = Max(lastResolved, r.id)
  /\ lastResponseKey' = NullKey
  /\ toast' = MsgLoadFail
  /\ tableData' = <<>>
  /\ rowsFrom' = r.id
  /\ UNCHANGED <<currentNextKey, previousKeys, keyPages, currentPage, currentRequestIdRef,
                 pollClosure, hasToken, mounted, lastFetch, nextKeyFrom, nextKeyPage, lastOk,
                 prevNav, isFetchingRef, isLoading>>

FetchFailure(r) ==
  /\ UNCHANGED <<appVars, pageVars>>
  /\ r \in inflight
  /\ inflight' = inflight \ {r}
  /\ lastOp' = "failure"
  /\ lastAccepted' = TRUE
  /\ lastResolved' = Max(lastResolved, r.id)
  /\ lastResponseKey' = NullKey
  /\ toast' = MsgLoadFail
  /\ tableData' = <<>>
  /\ rowsFrom' = r.id
  \* finally
  /\ isFetchingRef' = FALSE
  /\ isLoading' = FALSE
  /\ UNCHANGED <<currentNextKey, previousKeys, keyPages, currentPage, currentRequestIdRef,
                 pollClosure, hasToken, mounted, lastFetch, nextKeyFrom, nextKeyPage, lastOk, prevNav>>

DashInitWith(tok) ==
  /\ tableData = <<>>
  /\ isLoading = TRUE
  /\ currentNextKey = NullKey
  /\ previousKeys = <<>>
  /\ currentPage = 1
  /\ isFetchingRef = FALSE
  /\ currentRequestIdRef = 0
  /\ pollClosure = [currentPage |-> 1, previousKeys |-> <<>>]
  /\ inflight = {}
  /\ hasToken = tok
  /\ mounted = FALSE
  /\ toast = ""
  /\ lastOp = "init"
  /\ lastAccepted = FALSE
  /\ lastFetch = [id |-> 0, nextPageKey |-> NullKey, pageNumber |-> 1, showToast |-> FALSE]
  /\ rowsFrom = 0
  /\ nextKeyFrom = 0
  /\ nextKeyPage = 0
  /\ keyPages = <<>>
  /\ lastResolved = 0
  /\ lastOk = 0
  /\ lastResponseKey = NullKey
  /\ prevNav = [op |-> "none", before |-> "none", currentPage |-> 1, previousKeys |-> <<>>, cursor |-> NullKey]

DashNext ==
  \/ MountEffect
  \/ HandleNextPage
  \/ HandlePreviousPage
  \/ HandleRefresh
  \/ PollTick
  \/ \E r \in inflight : \E data \in Responses : FetchSuccess(r, data)
  \/ \E r \in inflight : FetchFailure(r)

(***************************************************************************)
(*                                                                         *)
(*        Router, session stores, login and logout (App, AuthPage)         *)
(*                                                                         *)
(***************************************************************************)
\* Strings that the code takes apart are sequences of one-character strings
Emails == { <<"a", "@", "b">>, <<"a", "b", "@", "c">> }
Names == { <<"n">> }
Tokens == {"t1", "t2"}
Roles == {"admin"}
LabIds == {"lab1"}
CabinetIds == {"cab1"}
Pages == {"auth", "dashboard", "labs", "setDetails", "admin"}
SessionKeys == {"authToken", "userName", "userEmail", "userRole", "currentPage"}

\* The falsy value of each key's type ("" for a string)
Empty(k) == IF k \in {"userName", "userEmail"} THEN <<>> ELSE ""

EmptyStore == [k \in {} |-> ""]

\* storage.setItem / storage.removeItem / storage.getItem
SetItem(store, k, v) == [x \in (DOMAIN store) \cup {k} |-> IF x = k THEN v ELSE store[x]]
RemoveItem(store, k) == [x \in (DOMAIN store) \ {k} |-> store[x]]
GetItem(store, k) == IF k \in DOMAIN store THEN store[k] ELSE Empty(k)
TruthyItem(store, k) == k \in DOMAIN store /\ store[k] # Empty(k)

\* localStorage.getItem(k) || sessionStorage.getItem(k)
ReadSession(loc, ses, k) == IF TruthyItem(loc, k) THEN loc[k] ELSE GetItem(ses, k)

\* Variant of the split that keeps the whole address
SplitAt0Whole(s) == s

\* email.split('@')[0]
RECURSIVE SplitAt0(_)
SplitAt0(s) ==
  IF s = <<>> THEN <<>>
  ELSE IF Head(s) = "@" THEN <<>>
  ELSE <<Head(s)>> \o SplitAt0(Tail(s))

\* Responses of the login endpoint; status 0 stands for a rejected fetch
LoginStatuses == {0, 200, 400, 401, 404, 422, 500}
LoginResponses ==
  [status : LoginStatuses, isJson : BOOLEAN, token : {""}, role : {""}]
  \cup [status : {200}, isJson : {TRUE}, token : Tokens \cup {""}, role : Roles \cup {""}]

\* authenticateUser: the branch the response takes
Classify(resp) ==
  IF resp.status = 0 THEN "ConfigError"
  ELSE IF resp.status = 401 THEN "AuthError"
  ELSE IF resp.status = 422 THEN "ValidationError"
  ELSE IF resp.status = 404 THEN "ConfigError"
  ELSE IF resp.status >= 500 THEN "ServerError"
  ELSE IF ~(resp.status >= 200 /\ resp.status <= 299) THEN "RequestError"
  ELSE IF ~resp.isJson THEN "ConfigError"
  ELSE IF resp.token = "" THEN "NoToken"
  ELSE "Success"

\* The isConfigError field of the result of authenticateUser
IsConfigError(resp) == Classify(resp) = "ConfigError"

\* Effect "save current page": runs after a render in which currentPage or
\* isCheckingAuth changed
SavePage(store, loc, ses, page, checking) ==
  IF ~checking /\ page # "auth" /\ ReadSession(loc, ses, "authToken") # ""
       /\ TruthyItem(store, "authToken")
    THEN SetItem(store, "currentPage", page)
    ELSE store

\* Storage after the effects of a render that goes from the current App state
\* to (page, checking) with the stores loc and ses
AfterRender(loc, ses, page, checking) ==
  IF page # mountedPage \/ checking # isCheckingAuth
    THEN [loc |-> SavePage(loc, loc, ses, page, checking),
          ses |-> SavePage(ses, loc, ses, page, checking)]
    ELSE [loc |-> loc, ses |-> ses]

\* Leaving the auth screen unmounts the AuthPage; its pending logins go on
Orphaned(ls) ==
  LET dead == { [l EXCEPT !.live = FALSE] : l \in BagToSet(ls) } IN
  [l \in dead |-> CopiesIn(l, ls) + CopiesIn([l EXCEPT !.live = TRUE], ls)]
LoginsAfter(ls, page) == IF page # "auth" THEN Orphaned(ls) ELSE ls
AuthLoadingAfter(v, page) ==
  IF page # "auth" \/ mountedPage # "auth" THEN FALSE ELSE v

RemoveAll(store) == [x \in (DOMAIN store) \ SessionKeys |-> store[x]]

NoLogin ==
  [email |-> <<>>, remember |-> FALSE, class |-> "none", token |-> "", role |-> "",
   status |-> 0, isJson |-> FALSE, isConfigError |-> FALSE]
NoCall == -1

\* What a step of the App records about itself; the dashboard is not involved
Observe(op, login, logout) ==
  /\ lastAppOp' = op
  /\ lastLogin' = login
  /\ lastLogout' = logout
  /\ UNCHANGED <<dashVars, pageVars>>

\* One more request in flight, one request settled
Add(calls, c) == calls (+) SetToBag({c})
Settle(calls, c) == calls (-) SetToBag({c})

(***************************************************************************)
(* App mount effect: restoreAuthState                                      *)
(***************************************************************************)
\* Variant of restoreAuthState that always restores the dashboard
RestoreAuthStateToDashboard ==
  /\ isCheckingAuth
  /\ Observe("restore", NoLogin, NoCall)
  /\ LET token == ReadSession(localStore, sessionStore, "authToken")
         storedUserName == ReadSession(localStore, sessionStore, "userName")
         storedUserEmail == ReadSession(localStore, sessionStore, "userEmail")
         storedUserRole == ReadSession(localStore, sessionStore, "userRole")
         storedPage == ReadSession(localStore, sessionStore, "currentPage") IN
     IF token # "" /\ storedUserName # <<>>
       THEN LET page == "dashboard"
                st == AfterRender(localStore, sessionStore, page, FALSE) IN
            /\ userName' = storedUserName
            /\ userEmail' = storedUserEmail
            /\ userRole' = storedUserRole
            /\ mountedPage' = page
            /\ localStore' = st.loc
            /\ sessionStore' = st.ses
       ELSE /\ localStore' = RemoveAll(localStore)
            /\ sessionStore' = RemoveAll(sessionStore)
            /\ mountedPage' = "auth"
            /\ UNCHANGED <<userName, userEmail, userRole>>
  /\ isCheckingAuth' = FALSE
  /\ logins' = LoginsAfter(logins, mountedPage')
  /\ authIsLoading' = AuthLoadingAfter(authIsLoading, mountedPage')
  /\ UNCHANGED <<selectedLabId, selectedCabinetId, logouts>>

RestoreAuthState ==
  /\ isCheckingAuth
  /\ Observe("restore", NoLogin, NoCall)
  /\ LET token == ReadSession(localStore, sessionStore, "authToken")
         storedUserName == ReadSession(localStore, sessionStore, "userName")
         storedUserEmail == ReadSession(localStore, sessionStore, "userEmail")
         storedUserRole == ReadSession(localStore, sessionStore, "userRole")
         storedPage == ReadSession(localStore, sessionStore, "currentPage") IN
     IF token # "" /\ storedUserName # <<>>
       THEN LET page == IF storedPage # "" /\ storedPage # "auth"
                          THEN storedPage ELSE "dashboard"
                st == AfterRender(localStore, sessionStore, page, FALSE) IN
            /\ userName' = storedUserName
            /\ userEmail' = storedUserEmail
            /\ userRole' = storedUserRole
            /\ mountedPage' = page
            /\ localStore' = st.loc
            /\ sessionStore' = st.ses
       ELSE /\ localStore' = RemoveAll(localStore)
            /\ sessionStore' = RemoveAll(sessionStore)
            /\ mountedPage' = "auth"
            /\ UNCHANGED <<userName, userEmail, userRole>>
  /\ isCheckingAuth' = FALSE
  /\ logins' = LoginsAfter(logins, mountedPage')
  /\ authIsLoading' = AuthLoadingAfter(authIsLoading, mountedPage')
  /\ UNCHANGED <<selectedLabId, selectedCabinetId, logouts>>

(***************************************************************************)
(* The browser tab is reloaded (keepSession) or closed and opened again    *)
(***************************************************************************)
Reload(keepSession) ==
  /\ ~isCheckingAuth
  /\ Observe("reload", NoLogin, NoCall)
  /\ sessionStore' = IF keepSession THEN sessionStore ELSE EmptyStore
  /\ mountedPage' = "auth"
  /\ userName' = <<>>
  /\ userEmail' = <<>>
  /\ userRole' = ""
  /\ selectedLabId' = ""
  /\ selectedCabinetId' = ""
  /\ isCheckingAuth' = TRUE
  /\ authIsLoading' = FALSE
  /\ logins' = EmptyBag
  /\ logouts' = EmptyBag
  /\ UNCHANGED localStore

(***************************************************************************)
(* handleLoginSuccess(name, demoMode, email, role)                         *)
(* Gives the App state and the stores after the call and its render.       *)
(***************************************************************************)
HandleLoginSuccess(loc, ses, name, email, role) ==
  LET toLocal == TruthyItem(loc, "authToken")
      storage == IF toLocal THEN loc ELSE ses
      s1 == SetItem(storage, "userName", name)
      s2 == IF email # <<>> THEN SetItem(s1, "userEmail", email) ELSE s1
      s3 == IF role # "" THEN SetItem(s2, "userRole", role) ELSE s2
      s4 == SetItem(s3, "currentPage", "dashboard")
      loc1 == IF toLocal THEN s4 ELSE loc
      ses1 == IF toLocal THEN ses ELSE s4
      st == AfterRender(loc1, ses1, "dashboard", isCheckingAuth) IN
  /\ userName' = name
  /\ userEmail' = email
  /\ userRole' = role
  /\ mountedPage' = "dashboard"
  /\ localStore' = st.loc
  /\ sessionStore' = st.ses

(***************************************************************************)
(* handleLogin up to the await of authenticateUser                         *)
(***************************************************************************)
HandleLogin(email, password, remember) ==
  /\ ~isCheckingAuth
  /\ mountedPage = "auth"
  /\ ~authIsLoading            \* the submit button is disabled while loading
  /\ IF email = <<>> \/ password = ""
       THEN /\ Observe("loginRejected", NoLogin, NoCall)
            /\ UNCHANGED <<authIsLoading, logins>>
       ELSE /\ BagCardinality(logins) < MaxLogins
            /\ Observe("loginSubmit", NoLogin, NoCall)
            /\ authIsLoading' = TRUE
            /\ logins' = Add(logins, [email |-> email, remember |-> remember,
                                      live |-> TRUE])
  /\ UNCHANGED <<localStore, sessionStore, mountedPage, userName, userEmail, userRole,
                 selectedLabId, selectedCabinetId, isCheckingAuth, logouts>>

(***************************************************************************)
(* A login POST resolves with a 2xx JSON body that carries a token         *)
(***************************************************************************)
LoginSucceeds(l, resp) ==
  LET name == SplitAt0(l.email)
      role == IF resp.role # "" THEN resp.role ELSE "user"
      store0 == IF l.remember THEN localStore ELSE sessionStore
      store1 == SetItem(SetItem(SetItem(SetItem(store0,
                  "authToken", resp.token), "userName", name),
                  "userEmail", l.email), "userRole", role)
      loc1 == IF l.remember THEN store1 ELSE localStore
      ses1 == IF l.remember THEN sessionStore ELSE store1 IN
  /\ HandleLoginSuccess(loc1, ses1, name, l.email, role)
  /\ logins' = Orphaned(Settle(logins, l))
  /\ authIsLoading' = FALSE
  /\ UNCHANGED <<selectedLabId, selectedCabinetId, isCheckingAuth, logouts>>

(***************************************************************************)
(* A login POST resolves in any other way                                  *)
(***************************************************************************)
\* Variant of the failure branch that logs a demo user in on a config error
LoginFailsDemoFallback(l, resp) ==
  /\ IF Classify(resp) = "ConfigError"
       THEN /\ HandleLoginSuccess(SetItem(localStore, "authToken", "t1"), sessionStore,
                                  <<"n">>, <<"a", "@", "b">>, "admin")
            /\ logins' = Orphaned(Settle(logins, l))
            /\ authIsLoading' = FALSE
       ELSE /\ logins' = Settle(logins, l)
            /\ authIsLoading' = (IF l.live THEN FALSE ELSE authIsLoading)
            /\ UNCHANGED <<localStore, sessionStore, mountedPage, userName, userEmail,
                           userRole>>
  /\ UNCHANGED <<selectedLabId, selectedCabinetId, isCheckingAuth, logouts>>

\* Variant of the failure branch without the finally that ends the loading
LoginFailsStaysLoading(l, resp) ==
  /\ logins' = Settle(logins, l)
  /\ UNCHANGED <<localStore, sessionStore, mountedPage, userName, userEmail, userRole,
                 selectedLabId, selectedCabinetId, isCheckingAuth, logouts, authIsLoading>>

LoginFails(l, resp) ==
  /\ logins' = Settle(logins, l)
  /\ authIsLoading' = IF l.live THEN FALSE ELSE authIsLoading
  /\ UNCHANGED <<localStore, sessionStore, mountedPage, userName, userEmail, userRole,
                 selectedLabId, selectedCabinetId, isCheckingAuth, logouts>>

LoginResolve(l, resp) ==
  /\ BagIn(l, logins)
  /\ IF Classify(resp) = "Success"
       THEN /\ Observe("loginOk", [email |-> l.email, remember |-> l.remember,
                                   class |-> "Success", token |-> resp.token,
                                   role |-> resp.role, status |-> resp.status,
                                   isJson |-> resp.isJson,
                                   isConfigError |-> IsConfigError(resp)], NoCall)
            /\ LoginSucceeds(l, resp)
       ELSE /\ Observe("loginFail", [email |-> l.email, remember |-> l.remember,
                                     class |-> Classify(resp), token |-> "",
                                     role |-> "", status |-> resp.status,
                                     isJson |-> resp.isJson,
                                     isConfigError |-> IsConfigError(resp)], NoCall)
            /\ LoginFails(l, resp)

(***************************************************************************)
(* handleSignup                                                            *)
(***************************************************************************)
SignupInputs ==
  [name : Names \cup {<<>>}, email : {<<"a", "@", "b">>},
   passwordLength : {7, 8}, confirmMatches : BOOLEAN]

HandleSignup(d) ==
  /\ ~isCheckingAuth
  /\ mountedPage = "auth"
  /\ IF d.name = <<>> \/ d.email = <<>> \/ d.passwordLength = 0
       THEN /\ Observe("signupRejected", NoLogin, NoCall)
            /\ UNCHANGED <<localStore, sessionStore, mountedPage, userName, userEmail,
                           userRole, logins, authIsLoading>>
     ELSE IF ~d.confirmMatches
       THEN /\ Observe("signupRejected", NoLogin, NoCall)
            /\ UNCHANGED <<localStore, sessionStore, mountedPage, userName, userEmail,
                           userRole, logins, authIsLoading>>
     ELSE IF d.passwordLength < 8
       THEN /\ Observe("signupRejected", NoLogin, NoCall)
            /\ UNCHANGED <<localStore, sessionStore, mountedPage, userName, userEmail,
                           userRole, logins, authIsLoading>>
     ELSE /\ Observe("signup", NoLogin, NoCall)
          /\ HandleLoginSuccess(localStore, sessionStore, d.name, <<>>, "")
          /\ logins' = Orphaned(logins)
          /\ authIsLoading' = FALSE
  /\ UNCHANGED <<selectedLabId, selectedCabinetId, isCheckingAuth, logouts>>

(***************************************************************************)
(* handleLogout                                                            *)
(***************************************************************************)
\* "Always clear the session regardless of API response"
ClearSession ==
  /\ mountedPage' = "auth"
  /\ userName' = <<>>
  /\ userEmail' = <<>>
  /\ userRole' = ""
  /\ selectedLabId' = ""
  /\ selectedCabinetId' = ""
  /\ localStore' = RemoveAll(localStore)
  /\ sessionStore' = RemoveAll(sessionStore)
  /\ authIsLoading' = AuthLoadingAfter(authIsLoading, "auth")
  /\ UNCHANGED <<isCheckingAuth, logins>>

\* handleLogout up to the await of the logout call; without a token there is
\* no call and the session is cleared in the same step
HandleLogout ==
  /\ ~isCheckingAuth
  /\ mountedPage # "auth"
  /\ LET token == ReadSession(localStore, sessionStore, "authToken") IN
     IF token # ""
       THEN /\ BagCardinality(logouts) < MaxLogouts
            /\ Observe("logoutStart", NoLogin, NoCall)
            /\ logouts' = Add(logouts, [bearer |-> token])
            /\ UNCHANGED <<localStore, sessionStore, mountedPage, userName, userEmail,
                           userRole, selectedLabId, selectedCabinetId, isCheckingAuth,
                           authIsLoading, logins>>
       ELSE /\ Observe("logoutDone", NoLogin, NoCall)
            /\ ClearSession
            /\ UNCHANGED logouts

\* Outcomes of the logout call; status 0 stands for a rejected fetch.  The
\* branches on the status only choose the text of a toast; all of them, and
\* the catch, fall through to the code that clears the session.
LogoutStatuses == {0, 200, 302, 400, 401, 404, 422, 500}

\* Variant of the resolution that gives up when the logout call is rejected
LogoutResolveKeepsOnNetworkError(o, status) ==
  /\ BagIn(o, logouts)
  /\ logouts' = Settle(logouts, o)
  /\ Observe("logoutDone", NoLogin, status)
  /\ IF status = 0
       THEN UNCHANGED <<localStore, sessionStore, mountedPage, userName, userEmail,
                        userRole, selectedLabId, selectedCabinetId, isCheckingAuth,
                        authIsLoading, logins>>
       ELSE ClearSession

\* The logout call resolves
LogoutResolve(o, status) ==
  /\ BagIn(o, logouts)
  /\ logouts' = Settle(logouts, o)
  /\ Observe("logoutDone", NoLogin, status)
  /\ ClearSession

(***************************************************************************)
(* Navigation callbacks                                                    *)
(***************************************************************************)
GoTo(op, page) ==
  LET st == AfterRender(localStore, sessionStore, page, isCheckingAuth) IN
  /\ Observe(op, NoLogin, NoCall)
  /\ mountedPage' = page
  /\ localStore' = st.loc
  /\ sessionStore' = st.ses
  /\ UNCHANGED <<userName, userEmail, userRole, isCheckingAuth, authIsLoading,
                 logins, logouts>>

\* handleNavigate / handleNavigateToLabs / handleNavigateToAdmin
HandleNavigate(page) ==
  /\ ~isCheckingAuth
  /\ mountedPage # "auth"
  /\ page \in {"dashboard", "labs", "admin"}
  /\ GoTo("navigate", page)
  /\ UNCHANGED <<selectedLabId, selectedCabinetId>>

HandleSelectSet(labId, cabinetId) ==
  /\ ~isCheckingAuth
  /\ mountedPage = "labs"
  /\ selectedLabId' = labId
  /\ selectedCabinetId' = cabinetId
  /\ GoTo("selectSet", "setDetails")

HandleBackToLabs ==
  /\ ~isCheckingAuth
  /\ mountedPage = "setDetails"
  /\ GoTo("backToLabs", "labs")
  /\ UNCHANGED <<selectedLabId, selectedCabinetId>>

HandleBackToDashboard ==
  /\ ~isCheckingAuth
  /\ mountedPage \in {"labs", "setDetails"}
  /\ GoTo("backToDashboard", "dashboard")
  /\ UNCHANGED <<selectedLabId, selectedCabinetId>>

AppInit ==
  /\ localStore = EmptyStore
  /\ sessionStore = EmptyStore
  /\ mountedPage = "auth"
  /\ userName = <<>>
  /\ userEmail = <<>>
  /\ userRole = ""
  /\ selectedLabId = ""
  /\ selectedCabinetId = ""
  /\ isCheckingAuth = TRUE
  /\ authIsLoading = FALSE
  /\ logins = EmptyBag
  /\ logouts = EmptyBag
  /\ lastAppOp = "init"
  /\ lastLogin = NoLogin
  /\ lastLogout = NoCall

AppNext ==
  \/ RestoreAuthState
  \/ \E keepSession \in BOOLEAN : Reload(keepSession)
  \/ \E email \in Emails \cup {<<>>}, password \in {"", "pw"}, remember \in BOOLEAN :
       HandleLogin(email, password, remember)
  \/ \E l \in BagToSet(logins) : \E resp \in LoginResponses : LoginResolve(l, resp)
  \/ \E d \in SignupInputs : HandleSignup(d)
  \/ HandleLogout
  \/ \E o \in BagToSet(logouts) : \E status \in LogoutStatuses : LogoutResolve(o, status)
  \/ \E page \in Pages : HandleNavigate(page)
  \/ \E labId \in LabIds, cabinetId \in CabinetIds : HandleSelectSet(labId, cabinetId)
  \/ HandleBackToLabs
  \/ HandleBackToDashboard

(***************************************************************************)
(*                                                                         *)
(*        Log-collection form of the set-details screen (SetDetailsPage)   *)
(*                                                                         *)
(***************************************************************************)
\* A date input holds a day number and a time input a minute of the day;
\* NoValue is the empty string of an input that was not filled in
NoValue == -1
Dates == {1, 2}
Times == {0, 1}
MinutesPerDay == 2

\* Values typed into the task description
Descriptions ==
  { <<>>, <<" ", " ", " ", " ", " ">>, <<"a", "b", "c", "d", " ">>,
    <<"a", "b", "c", "d", "e">> }

HanLogFormats == {".pcap", ".dcf", ".cubx"}

\* String.prototype.trim
RECURSIVE TrimStart(_)
TrimStart(s) ==
  IF s = <<>> THEN <<>>
  ELSE IF Head(s) = " " THEN TrimStart(Tail(s))
  ELSE s

RECURSIVE TrimEnd(_)
TrimEnd(s) ==
  IF s = <<>> THEN <<>>
  ELSE IF s[Len(s)] = " " THEN TrimEnd(SubSeq(s, 1, Len(s) - 1))
  ELSE s

Trim(s) == TrimEnd(TrimStart(s))

\* new Date(`${date}T${time}`) as minutes on the wall clock
DateTime(date, time) == date * MinutesPerDay + time

\* Variant of validateDates without the two checks against the clock
ValidateDatesNoClock(sd, st, ed, et, clock) ==
  IF sd = NoValue \/ st = NoValue \/ ed = NoValue \/ et = NoValue THEN "DateMissing"
  ELSE IF DateTime(sd, st) >= DateTime(ed, et) THEN "StartNotBeforeEnd"
  ELSE ""

\* validateDates: "" when the dates pass, the rejection otherwise
ValidateDates(sd, st, ed, et, clock) ==
  IF sd = NoValue \/ st = NoValue \/ ed = NoValue \/ et = NoValue THEN "DateMissing"
  ELSE IF DateTime(sd, st) > clock THEN "StartInFuture"
  ELSE IF DateTime(ed, et) > clock THEN "EndInFuture"
  ELSE IF DateTime(sd, st) >= DateTime(ed, et) THEN "StartNotBeforeEnd"
  ELSE ""

\* The checks of handleRetrieveLogs before the request, in the order of the
\* code: "" when the form passes, the rejection otherwise
ValidateForm(desc, sd, st, ed, et, types, hanFormat, clock) ==
  IF Trim(desc) = <<>> THEN "NoDescription"
  ELSE IF Len(Trim(desc)) < 5 THEN "ShortDescription"
  ELSE IF ValidateDates(sd, st, ed, et, clock) # "" THEN ValidateDates(sd, st, ed, et, clock)
  ELSE IF ~types.CH /\ ~types.HAN THEN "NoLogType"
  ELSE IF types.HAN /\ hanFormat = "" THEN "NoHanFormat"
  ELSE ""

\* Responses of the log-collection endpoint; status 0 stands for a rejected fetch
PostStatuses == {0, 200, 400, 401, 403, 404, 500}
PostResponses == [status : PostStatuses, isJson : BOOLEAN]

\* handleRetrieveLogs: the branch the response takes
PostClassify(resp) ==
  IF resp.status = 0 THEN "NetworkError"
  ELSE IF resp.status = 401 THEN "Unauthorized"
  ELSE IF resp.status = 404 THEN "NotFound"
  ELSE IF resp.status >= 500 \/ resp.status = 400 THEN "ServerError"
  ELSE IF ~(resp.status >= 200 /\ resp.status <= 299) THEN "RequestFailed"
  ELSE IF ~resp.isJson THEN "InvalidResponse"
  ELSE "Success"

NoPost == [status |-> -1, isJson |-> FALSE, class |-> "none"]

\* The date and time inputs, the log-type boxes and the submit button are
\* rendered one inside the other
FormShown == mountedPage = "setDetails" /\ isActiveSet
DatesFilled ==
  startDate # NoValue /\ startTime # NoValue /\ endDate # NoValue /\ endTime # NoValue
LogTypesShown == FormShown /\ DatesFilled
ButtonShown == LogTypesShown /\ (logTypes.CH \/ logTypes.HAN)

\* What a step of the screen records about itself; the other screens are
\* not involved
ObserveSet(op, post) ==
  /\ lastSetOp' = op
  /\ lastPost' = post
  /\ UNCHANGED <<dashVars, appFrame, labVars, usersVars>>

\* A step that does not touch the router or the storage
StaysOnScreen == UNCHANGED <<mountedPage, localStore, sessionStore>>

(***************************************************************************)
(* The inputs of the form (onChange / onCheckedChange)                     *)
(***************************************************************************)
SetTaskDescription(v) ==
  /\ FormShown
  /\ ObserveSet("edit", NoPost)
  /\ taskDescription' = v
  /\ StaysOnScreen
  /\ UNCHANGED <<isActiveSet, startDate, startTime, endDate, endTime, logTypes,
                 chLogFormat, hanLogFormat, isSubmitting, now, posts, timers>>

SetStartDate(v) ==
  /\ FormShown
  /\ ObserveSet("edit", NoPost)
  /\ startDate' = v
  /\ StaysOnScreen
  /\ UNCHANGED <<isActiveSet, taskDescription, startTime, endDate, endTime, logTypes,
                 chLogFormat, hanLogFormat, isSubmitting, now, posts, timers>>

SetStartTime(v) ==
  /\ FormShown
  /\ ObserveSet("edit", NoPost)
  /\ startTime' = v
  /\ StaysOnScreen
  /\ UNCHANGED <<isActiveSet, taskDescription, startDate, endDate, endTime, logTypes,
                 chLogFormat, hanLogFormat, isSubmitting, now, posts, timers>>

SetEndDate(v) ==
  /\ FormShown
  /\ ObserveSet("edit", NoPost)
  /\ endDate' = v
  /\ StaysOnScreen
  /\ UNCHANGED <<isActiveSet, taskDescription, startDate, startTime, endTime, logTypes,
                 chLogFormat, hanLogFormat, isSubmitting, now, posts, timers>>

SetEndTime(v) ==
  /\ FormShown
  /\ ObserveSet("edit", NoPost)
  /\ endTime' = v
  /\ StaysOnScreen
  /\ UNCHANGED <<isActiveSet, taskDescription, startDate, startTime, endDate, logTypes,
                 chLogFormat, hanLogFormat, isSubmitting, now, posts, timers>>

\* CH box: unchecking it clears the CH format
SetLogTypeCH(checked) ==
  /\ LogTypesShown
  /\ ObserveSet("edit", NoPost)
  /\ logTypes' = [logTypes EXCEPT !.CH = checked]
  /\ chLogFormat' = IF ~checked THEN "" ELSE chLogFormat
  /\ StaysOnScreen
  /\ UNCHANGED <<isActiveSet, taskDescription, startDate, startTime, endDate, endTime,
                 hanLogFormat, isSubmitting, now, posts, timers>>

\* HAN box: unchecking it clears the HAN format
SetLogTypeHAN(checked) ==
  /\ LogTypesShown
  /\ ObserveSet("edit", NoPost)
  /\ logTypes' = [logTypes EXCEPT !.HAN = checked]
  /\ hanLogFormat' = IF ~checked THEN "" ELSE hanLogFormat
  /\ StaysOnScreen
  /\ UNCHANGED <<isActiveSet, taskDescription, startDate, startTime, endDate, endTime,
                 chLogFormat, isSubmitting, now, posts, timers>>

\* The format select is rendered only while HAN is checked
SetHanLogFormat(v) ==
  /\ LogTypesShown
  /\ logTypes.HAN
  /\ ObserveSet("edit", NoPost)
  /\ hanLogFormat' = v
  /\ StaysOnScreen
  /\ UNCHANGED <<isActiveSet, taskDescription, startDate, startTime, endDate, endTime,
                 logTypes, chLogFormat, isSubmitting, now, posts, timers>>

(***************************************************************************)
(* handleRetrieveLogs up to the await of the POST                          *)
(***************************************************************************)
HandleRetrieveLogs ==
  /\ ButtonShown
  /\ ~isSubmitting             \* the button is disabled while submitting
  /\ LET rejection == ValidateForm(taskDescription, startDate, startTime, endDate,
                                   endTime, logTypes, hanLogFormat, now)
         token == ReadSession(localStore, sessionStore, "authToken") IN
     IF rejection # ""
       THEN /\ ObserveSet(rejection, NoPost)
            /\ UNCHANGED <<isSubmitting, posts>>
     ELSE IF token = ""
       THEN /\ ObserveSet("NoToken", NoPost)
            /\ UNCHANGED <<isSubmitting, posts>>
     ELSE /\ BagCardinality(posts) + timers < MaxPosts
          /\ ObserveSet("submit", NoPost)
          /\ isSubmitting' = TRUE
          /\ posts' = Add(posts, [live |-> TRUE])
  /\ StaysOnScreen
  /\ UNCHANGED <<isActiveSet, formVars, now, timers>>

(***************************************************************************)
(* The POST resolves: status branching, catch and finally                  *)
(***************************************************************************)
\* Variant of the resolution that leaves the button disabled after an error
PostResolveStaysSubmitting(p, resp) ==
  /\ BagIn(p, posts)
  /\ posts' = Settle(posts, p)
  /\ ObserveSet(IF PostClassify(resp) = "Success" THEN "postOk" ELSE "postFail",
                [status |-> resp.status, isJson |-> resp.isJson,
                 class |-> PostClassify(resp)])
  /\ timers' = IF PostClassify(resp) = "Success" THEN timers + 1 ELSE timers
  /\ isSubmitting' = IF p.live /\ PostClassify(resp) = "Success" THEN FALSE
                      ELSE isSubmitting
  /\ StaysOnScreen
  /\ UNCHANGED <<isActiveSet, formVars, now>>

PostResolve(p, resp) ==
  /\ BagIn(p, posts)
  /\ posts' = Settle(posts, p)
  /\ ObserveSet(IF PostClassify(resp) = "Success" THEN "postOk" ELSE "postFail",
                [status |-> resp.status, isJson |-> resp.isJson,
                 class |-> PostClassify(resp)])
  /\ timers' = IF PostClassify(resp) = "Success" THEN timers + 1 ELSE timers
  /\ isSubmitting' = IF p.live THEN FALSE ELSE isSubmitting
  /\ StaysOnScreen
  /\ UNCHANGED <<isActiveSet, formVars, now>>

\* useState initial values of a SetDetailsPage
FreshForm ==
  /\ taskDescription' = <<>>
  /\ startDate' = NoValue
  /\ startTime' = NoValue
  /\ endDate' = NoValue
  /\ endTime' = NoValue
  /\ logTypes' = [CH |-> FALSE, HAN |-> FALSE]
  /\ chLogFormat' = ""
  /\ hanLogFormat' = ""

(***************************************************************************)
(* The 2 s timer armed by a successful submission expires:                 *)
(* onBackToDashboard()                                                     *)
(***************************************************************************)
TimerFires ==
  /\ timers > 0
  /\ timers' = timers - 1
  /\ ObserveSet("timer", NoPost)
  /\ LET st == AfterRender(localStore, sessionStore, "dashboard", isCheckingAuth) IN
     /\ mountedPage' = "dashboard"
     /\ localStore' = st.loc
     /\ sessionStore' = st.ses
  /\ IF mountedPage = "setDetails"
       THEN /\ FreshForm            \* the screen is unmounted
            /\ isSubmitting' = FALSE
            /\ posts' = Orphaned(posts)
       ELSE UNCHANGED <<formVars, isSubmitting, posts>>
  /\ UNCHANGED <<isActiveSet, now>>

\* The user leaves the screen through the navigation pane or a back button
\* (handleNavigate, handleBackToLabs, handleBackToDashboard): the screen is
\* unmounted, a timer that is armed stays armed
LeaveSetDetails(page) ==
  /\ mountedPage = "setDetails"
  /\ page \in {"dashboard", "labs", "admin"}
  /\ ObserveSet("leave", NoPost)
  /\ LET st == AfterRender(localStore, sessionStore, page, isCheckingAuth) IN
     /\ mountedPage' = page
     /\ localStore' = st.loc
     /\ sessionStore' = st.ses
  /\ FreshForm
  /\ isSubmitting' = FALSE
  /\ posts' = Orphaned(posts)
  /\ UNCHANGED <<isActiveSet, now, timers>>

\* The wall clock advances
ClockTick ==
  /\ now < MaxNow
  /\ now' = now + 1
  /\ ObserveSet("tick", NoPost)
  /\ StaysOnScreen
  /\ UNCHANGED <<isActiveSet, formVars, isSubmitting, posts, timers>>

\* A SetDetailsPage as it is constructed
SetDetailsInit(active) ==
  /\ isActiveSet = active
  /\ taskDescription = <<>>
  /\ startDate = NoValue
  /\ startTime = NoValue
  /\ endDate = NoValue
  /\ endTime = NoValue
  /\ logTypes = [CH |-> FALSE, HAN |-> FALSE]
  /\ chLogFormat = ""
  /\ hanLogFormat = ""
  /\ isSubmitting = FALSE
  /\ now = 3
  /\ posts = EmptyBag
  /\ timers = 0
  /\ lastSetOp = "init"
  /\ lastPost = NoPost

\* The App after a set was opened on the labs screen: by a user who logged
\* in with remember-me (withToken) or by one who signed up
AppOnSetDetails(withToken) ==
  /\ localStore = IF withToken
                    THEN SetItem(SetItem(SetItem(SetItem(SetItem(EmptyStore,
                           "authToken", "t1"), "userName", <<"a">>),
                           "userEmail", <<"a", "@", "b">>), "userRole", "user"),
                           "currentPage", "setDetails")
                    ELSE EmptyStore
  /\ sessionStore = IF withToken
                      THEN EmptyStore
                      ELSE SetItem(SetItem(EmptyStore, "userName", <<"n">>),
                                   "currentPage", "dashboard")
  /\ mountedPage = "setDetails"
  /\ userName = IF withToken THEN <<"a">> ELSE <<"n">>
  /\ userEmail = IF withToken THEN <<"a", "@", "b">> ELSE <<>>
  /\ userRole = IF withToken THEN "user" ELSE ""
  /\ selectedLabId = "lab1"
  /\ selectedCabinetId = "cab1"
  /\ isCheckingAuth = FALSE
  /\ authIsLoading = FALSE
  /\ logins = EmptyBag
  /\ logouts = EmptyBag
  /\ lastAppOp = "selectSet"
  /\ lastLogin = NoLogin
  /\ lastLogout = NoCall

SetNext ==
  \/ \E v \in Descriptions : SetTaskDescription(v)
  \/ \E v \in Dates \cup {NoValue} : SetStartDate(v)
  \/ \E v \in Times \cup {NoValue} : SetStartTime(v)
  \/ \E v \in Dates \cup {NoValue} : SetEndDate(v)
  \/ \E v \in Times \cup {NoValue} : SetEndTime(v)
  \/ \E checked \in BOOLEAN : SetLogTypeCH(checked)
  \/ \E checked \in BOOLEAN : SetLogTypeHAN(checked)
  \/ \E v \in HanLogFormats \cup {""} : SetHanLogFormat(v)
  \/ HandleRetrieveLogs
  \/ \E p \in BagToSet(posts) : \E resp \in PostResponses : PostResolve(p, resp)
  \/ TimerFires
  \/ \E page \in {"dashboard", "labs", "admin"} : LeaveSetDetails(page)
  \/ ClockTick


(***************************************************************************)
(*                                                                         *)
(*        Lab screen (LabsPage): inventory fetch, facets and set list      *)
(*                                                                         *)
(***************************************************************************)
\* null of a device-type or variant tag
NullTag == "null"

\* Labs that the labs endpoint lists, in the order of the response
AllLabs == <<"lab1", "lab2">>

\* String.prototype.toLowerCase / toUpperCase on the strings of the model
ToLowerCase(s) ==
  CASE s = "Commissioned" -> "commissioned"
    [] s = "Pending" -> "pending"
    [] OTHER -> s

ToUpperCase(s) ==
  CASE s = "emh" -> "EMH"
    [] s = "v1" -> "V1"
    [] OTHER -> s

\* Cabinets of an LLS inventory: meter_set is the sequence of the
\* device_state values of its devices
MeterSets == { <<>>, <<"Pending">>, <<"Pending", "Commissioned">> }
Cabinets ==
  [cabinet_id : {"cab1"}, ch_type : {NullTag, "emh"}, ch_variant : {NullTag, "v1"},
   is_active : BOOLEAN, meter_set : MeterSets]
OtherCabinet ==
  [cabinet_id |-> "cab2", ch_type |-> "emh", ch_variant |-> NullTag,
   is_active |-> TRUE, meter_set |-> <<>>]

\* Bodies of a successful LLS inventory response
LlsData ==
  {<<>>} \cup { <<c>> : c \in Cabinets }
    \cup { <<c, OtherCabinet>> : c \in { d \in Cabinets : d.meter_set = <<>> } }

\* Failures of the inventory call; status 0 stands for a rejected fetch
LlsFailures ==
  [status : {0, 401, 404, 500, 400}, isJson : {TRUE}] \cup [status : {200}, isJson : {FALSE}]

\* fetchLabDetails: the response passes the status and content-type checks
LlsOk(status, isJson) ==
  /\ status # 0
  /\ status # 401
  /\ status # 404
  /\ ~(status >= 500)
  /\ status >= 200 /\ status <= 299
  /\ isJson

\* lls.meter_set?.some(d => d.device_state?.toLowerCase() === "commissioned")
HasCommissionedDevice(meter_set) ==
  \E i \in 1..Len(meter_set) : ToLowerCase(meter_set[i]) = "commissioned"

\* transformedCabinetData
TransformCabinet(lls) ==
  [cabinet_id |-> lls.cabinet_id,
   ch_type |-> lls.ch_type,
   ch_variant |-> IF lls.ch_variant \in {NullTag, ""} THEN NullTag ELSE lls.ch_variant,
   is_active |-> IF lls.is_active THEN "true" ELSE "false",
   device_state |-> IF Len(lls.meter_set) > 0 /\ lls.meter_set[1] # ""
                      THEN lls.meter_set[1] ELSE NullTag,
   has_commissioned_device |-> HasCommissionedDevice(lls.meter_set)]

TransformedCabinetData(data) == [i \in 1..Len(data) |-> TransformCabinet(data[i])]

\* Array.from(new Set(values.filter(v => v !== null))): the values that are
\* not null, each once, in the order of first appearance
RECURSIVE UniqueTags(_, _)
UniqueTags(values, seen) ==
  IF values = <<>> THEN <<>>
  ELSE IF Head(values) = NullTag \/ Head(values) \in seen
    THEN UniqueTags(Tail(values), seen)
  ELSE <<Head(values)>> \o UniqueTags(Tail(values), seen \cup {Head(values)})

\* manufacturesList / variantsList
FacetList(tags) == [i \in 1..Len(tags) |-> [id |-> tags[i], name |-> ToUpperCase(tags[i])]]
ManufacturesList(cd) == FacetList(UniqueTags([i \in 1..Len(cd) |-> cd[i].ch_type], {}))
VariantsList(cd) == FacetList(UniqueTags([i \in 1..Len(cd) |-> cd[i].ch_variant], {}))

\* generatedSets
GeneratedSets(cd) ==
  [i \in 1..Len(cd) |->
    [number |-> i,
     manufacture |-> IF cd[i].ch_type \in {NullTag, ""} THEN "" ELSE cd[i].ch_type,
     variant |-> IF cd[i].ch_variant \in {NullTag, ""} THEN "" ELSE cd[i].ch_variant,
     signalStrength |-> IF cd[i].has_commissioned_device THEN "full"
                        ELSE IF cd[i].is_active = "true" THEN "medium" ELSE "none",
     cabinet_id |-> cd[i].cabinet_id]]

\* newDeviceInfoMap: cabinet id -> devices; a later cabinet with the same id
\* replaces an earlier one
NewDeviceInfoMap(data) ==
  [id \in { data[i].cabinet_id : i \in 1..Len(data) } |->
     LET last == CHOOSE i \in 1..Len(data) :
                   /\ data[i].cabinet_id = id
                   /\ \A j \in (i + 1)..Len(data) : data[j].cabinet_id # id IN
     data[last].meter_set]

\* getFilteredSets
FilteredSets(all, manufacture, variant) ==
  LET ByManufacture(set) == manufacture = "" \/ set.manufacture = manufacture
      ByVariant(set) == variant = "" \/ set.variant = variant IN
  SelectSeq(SelectSeq(all, ByManufacture), ByVariant)

\* getFilteredVariants
FilteredVariants(variants, all, manufacture) ==
  IF manufacture = "" THEN variants
  ELSE LET forManufacturer ==
             { all[i].variant : i \in { j \in 1..Len(all) :
                                          /\ all[j].manufacture = manufacture
                                          /\ all[j].variant # "" } }
           Included(variant) == variant.id \in forManufacturer IN
       SelectSeq(variants, Included)

\* cabinetData.find(c => c.cabinet_id === set.cabinet_id &&
\*                       c.ch_type === set.manufacture): index, 0 when none
CabinetInfo(set, cd) ==
  LET found == { i \in 1..Len(cd) : /\ cd[i].cabinet_id = set.cabinet_id
                                     /\ cd[i].ch_type = set.manufacture } IN
  IF set.cabinet_id = "" \/ found = {} THEN 0
  ELSE CHOOSE i \in found : \A j \in found : i <= j

\* getStatusColor of a set button
GetStatusColor(set, cd) ==
  IF CabinetInfo(set, cd) = 0
    THEN IF set.signalStrength = "full" THEN "green"
         ELSE IF set.signalStrength = "medium" THEN "yellow"
         ELSE "red"
  ELSE LET cabinetInfo == cd[CabinetInfo(set, cd)] IN
       IF cabinetInfo.is_active = "true" /\ cabinetInfo.has_commissioned_device
         THEN "green"
       ELSE IF cabinetInfo.is_active = "true" /\ ~cabinetInfo.has_commissioned_device
         THEN "yellow"
       ELSE "gray"

NoSet == 0
NoLls == [status |-> -1, isJson |-> FALSE, lab |-> ""]
NoOpen == [labId |-> "", cabinetId |-> "", devices |-> <<>>]

\* What a step of the lab screen records about itself; the other screens
\* are not involved
ObserveLabs(op, call) ==
  /\ lastLabOp' = op
  /\ lastLls' = call
  /\ UNCHANGED <<dashVars, appVars, setVars, usersVars>>

\* The lab screen is on display (it is unmounted when a set is opened)
LabsShown == labsMounted /\ lastOpened = NoOpen

\* Ids of a list of labs or facets
Ids(list) == { list[i].id : i \in 1..Len(list) }

(***************************************************************************)
(* Mount effect: fetchLabs up to the await                                 *)
(***************************************************************************)
FetchLabs ==
  /\ ~labsMounted
  /\ labsMounted' = TRUE
  /\ ObserveLabs("fetchLabs", NoLls)
  /\ IF ~labsToken
       THEN /\ isLoadingLabs' = FALSE
            /\ UNCHANGED labsCall
       ELSE /\ isLoadingLabs' = TRUE
            /\ labsCall' = TRUE
  /\ UNCHANGED <<labsToken, selectedLab, selectedManufacture, selectedVariant,
                 selectedSet, labs, cabinetData, chManufactures, chVariants, allSets,
                 deviceInfoMap, isLoadingLabDetails, llsCalls, setsFrom, lastOpened>>

\* The labs call resolves: mappedLabs on success, [] on any error
FetchLabsResolve(ok) ==
  /\ labsCall
  /\ labsCall' = FALSE
  /\ ObserveLabs("labsResolved", NoLls)
  /\ labs' = IF ok THEN [i \in 1..Len(AllLabs) |-> [id |-> AllLabs[i], number |-> i]]
             ELSE <<>>
  /\ isLoadingLabs' = FALSE
  /\ UNCHANGED <<labsToken, labsMounted, selectedLab, selectedManufacture,
                 selectedVariant, selectedSet, cabinetData, chManufactures, chVariants,
                 allSets, deviceInfoMap, isLoadingLabDetails, llsCalls, setsFrom,
                 lastOpened>>

(***************************************************************************)
(* handleLabChange, with fetchLabDetails up to the await                   *)
(***************************************************************************)
HandleLabChange(value) ==
  /\ LabsShown
  /\ ~isLoadingLabs               \* the select is disabled while labs load
  /\ value \in Ids(labs)
  /\ value # selectedLab
  /\ selectedLab' = value
  /\ selectedManufacture' = ""
  /\ selectedVariant' = ""
  /\ selectedSet' = NoSet
  /\ cabinetData' = <<>>
  /\ chManufactures' = <<>>
  /\ chVariants' = <<>>
  /\ IF ~labsToken
       THEN /\ ObserveLabs("labChangeNoToken", NoLls)
            /\ isLoadingLabDetails' = FALSE
            /\ UNCHANGED llsCalls
       ELSE /\ BagCardinality(llsCalls) < MaxLlsCalls
            /\ ObserveLabs("labChange", NoLls)
            /\ isLoadingLabDetails' = TRUE
            /\ llsCalls' = Add(llsCalls, [lab |-> value])
  /\ UNCHANGED <<labsToken, labsMounted, labsCall, labs, allSets, deviceInfoMap,
                 isLoadingLabs, setsFrom, lastOpened>>

(***************************************************************************)
(* fetchLabDetails after the await                                         *)
(***************************************************************************)
LlsSucceeds(c, data) ==
  /\ BagIn(c, llsCalls)
  /\ llsCalls' = Settle(llsCalls, c)
  /\ ObserveLabs("llsOk", [status |-> 200, isJson |-> TRUE, lab |-> c.lab])
  /\ deviceInfoMap' = NewDeviceInfoMap(data)
  /\ cabinetData' = TransformedCabinetData(data)
  /\ chManufactures' = ManufacturesList(TransformedCabinetData(data))
  /\ chVariants' = VariantsList(TransformedCabinetData(data))
  /\ allSets' = GeneratedSets(TransformedCabinetData(data))
  /\ setsFrom' = [lab |-> c.lab, data |-> data]
  /\ isLoadingLabDetails' = FALSE
  /\ UNCHANGED <<labsToken, labsMounted, labsCall, labs, selectedLab,
                 selectedManufacture, selectedVariant, selectedSet, isLoadingLabs,
                 lastOpened>>

LlsFails(c, resp) ==
  /\ BagIn(c, llsCalls)
  /\ ~LlsOk(resp.status, resp.isJson)
  /\ llsCalls' = Settle(llsCalls, c)
  /\ ObserveLabs("llsFail", [status |-> resp.status, isJson |-> resp.isJson,
                             lab |-> c.lab])
  /\ cabinetData' = <<>>
  /\ chManufactures' = <<>>
  /\ chVariants' = <<>>
  /\ isLoadingLabDetails' = FALSE
  /\ UNCHANGED <<labsToken, labsMounted, labsCall, labs, selectedLab,
                 selectedManufacture, selectedVariant, selectedSet, allSets,
                 deviceInfoMap, isLoadingLabs, setsFrom, lastOpened>>

(***************************************************************************)
(* Facet selects and set buttons                                           *)
(***************************************************************************)
HandleManufactureChange(value) ==
  /\ LabsShown
  /\ selectedLab # ""
  /\ ~isLoadingLabDetails          \* the select is disabled while details load
  /\ value \in Ids(chManufactures)
  /\ value # selectedManufacture
  /\ ObserveLabs("manufactureChange", NoLls)
  /\ selectedManufacture' = value
  /\ selectedVariant' = ""
  /\ selectedSet' = NoSet
  /\ UNCHANGED <<labsToken, labsMounted, labsCall, labs, selectedLab, cabinetData,
                 chManufactures, chVariants, allSets, deviceInfoMap, isLoadingLabs,
                 isLoadingLabDetails, llsCalls, setsFrom, lastOpened>>

HandleVariantChange(value) ==
  /\ LabsShown
  /\ selectedManufacture # ""
  /\ ~isLoadingLabDetails
  /\ value \in Ids(FilteredVariants(chVariants, allSets, selectedManufacture))
  /\ value # selectedVariant
  /\ ObserveLabs("variantChange", NoLls)
  /\ selectedVariant' = value
  /\ selectedSet' = NoSet
  /\ UNCHANGED <<labsToken, labsMounted, labsCall, labs, selectedLab,
                 selectedManufacture, cabinetData, chManufactures, chVariants, allSets,
                 deviceInfoMap, isLoadingLabs, isLoadingLabDetails, llsCalls, setsFrom,
                 lastOpened>>

\* The set buttons on display: sets = getFilteredSets()
Sets == FilteredSets(allSets, selectedManufacture, selectedVariant)

HandleSetClick(setNumber) ==
  /\ LabsShown
  /\ selectedLab # ""
  /\ \E i \in 1..Len(Sets) : Sets[i].number = setNumber
  /\ ObserveLabs("setClick", NoLls)
  /\ selectedSet' = setNumber
  /\ UNCHANGED <<labsToken, labsMounted, labsCall, labs, selectedLab,
                 selectedManufacture, selectedVariant, cabinetData, chManufactures,
                 chVariants, allSets, deviceInfoMap, isLoadingLabs, isLoadingLabDetails,
                 llsCalls, setsFrom, lastOpened>>

\* handleOpenSet: onSelectSet(lab.lab_id, ..., cabinetId, ..., devices) when
\* the lab and the set are found; App then mounts the set-details screen
HandleOpenSet ==
  /\ LabsShown
  /\ selectedSet # NoSet           \* the button is disabled without a set
  /\ LET found == { i \in 1..Len(Sets) : Sets[i].number = selectedSet } IN
     IF selectedLab \in Ids(labs) /\ found # {}
       THEN LET set == Sets[CHOOSE i \in found : \A j \in found : i <= j]
                cabinetId == set.cabinet_id IN
            /\ ObserveLabs("openSet", NoLls)
            /\ lastOpened' = [labId |-> selectedLab, cabinetId |-> cabinetId,
                              devices |-> IF cabinetId \in DOMAIN deviceInfoMap
                                            THEN deviceInfoMap[cabinetId] ELSE <<>>]
            /\ llsCalls' = EmptyBag
       ELSE /\ ObserveLabs("openNothing", NoLls)
            /\ UNCHANGED <<lastOpened, llsCalls>>
  /\ UNCHANGED <<labsToken, labsMounted, labsCall, labs, selectedLab,
                 selectedManufacture, selectedVariant, selectedSet, cabinetData,
                 chManufactures, chVariants, allSets, deviceInfoMap, isLoadingLabs,
                 isLoadingLabDetails, setsFrom>>

\* A LabsPage as it is constructed
LabsInit(token) ==
  /\ labsToken = token
  /\ labsMounted = FALSE
  /\ labsCall = FALSE
  /\ selectedLab = ""
  /\ selectedManufacture = ""
  /\ selectedVariant = ""
  /\ selectedSet = NoSet
  /\ labs = <<>>
  /\ cabinetData = <<>>
  /\ chManufactures = <<>>
  /\ chVariants = <<>>
  /\ allSets = <<>>
  /\ deviceInfoMap = <<>>
  /\ isLoadingLabs = TRUE
  /\ isLoadingLabDetails = FALSE
  /\ llsCalls = EmptyBag
  /\ setsFrom = [lab |-> "", data |-> <<>>]
  /\ lastOpened = NoOpen
  /\ lastLabOp = "init"
  /\ lastLls = NoLls

LabsNext ==
  \/ FetchLabs
  \/ \E ok \in BOOLEAN : FetchLabsResolve(ok)
  \/ \E value \in {"lab1", "lab2"} : HandleLabChange(value)
  \/ \E c \in BagToSet(llsCalls) : \E data \in LlsData : LlsSucceeds(c, data)
  \/ \E c \in BagToSet(llsCalls) : \E resp \in LlsFailures : LlsFails(c, resp)
  \/ \E value \in {"emh"} : HandleManufactureChange(value)
  \/ \E value \in {"v1"} : HandleVariantChange(value)
  \/ \E setNumber \in 1..2 : HandleSetClick(setNumber)
  \/ HandleOpenSet

(***************************************************************************)
(* The users screen (users-page.tsx)                                       *)
(***************************************************************************)
\* Users as the list endpoint returns them; the second one has no user_id
\* and no names
ApiUsers ==
  << [user_id |-> <<"a", "@", "b">>, first_name |-> <<"f">>, last_name |-> <<"l">>,
      role |-> "user"],
     [user_id |-> <<>>, first_name |-> <<>>, last_name |-> <<>>, role |-> "admin"] >>

\* The arrays a response carries
UserLists == { <<>>, <<ApiUsers[1]>>, ApiUsers }

\* The shapes of a response body: a bare array, {users: [...]}, {data: [...]}
Shapes == {"array", "users", "data"}

\* Responses of the list endpoint; status 0 stands for a rejected fetch
ListStatuses == {0, 200, 401, 404, 500}
ListResponses ==
  [status : ListStatuses \ {200}, isJson : BOOLEAN, shape : {"array"}, list : {<<>>}]
  \cup [status : {200}, isJson : {FALSE}, shape : {"array"}, list : {<<>>}]
  \cup [status : {200}, isJson : {TRUE}, shape : Shapes, list : UserLists]

\* Responses of the delete endpoint
DeleteStatuses == {0, 200, 401, 404, 500}

\* String(index + 1)
IndexString(i) == IF i = 1 THEN <<"1">> ELSE <<"2">>

\* One user of the response as the table holds it
TransformUser(apiUser, i) ==
  LET fullName == Trim(apiUser.first_name \o <<" ">> \o apiUser.last_name) IN
  [ id |-> IF apiUser.user_id # <<>> THEN apiUser.user_id ELSE IndexString(i),
    name |-> IF fullName # <<>> THEN fullName
             ELSE IF apiUser.user_id # <<>> THEN apiUser.user_id
             ELSE <<"U", "n", "k", "n", "o", "w", "n">>,
    email |-> apiUser.user_id,
    username |-> IF apiUser.user_id # <<>> THEN SplitAt0(apiUser.user_id)
                 ELSE <<"u", "s", "e", "r">> \o IndexString(i),
    first_name |-> apiUser.first_name,
    last_name |-> apiUser.last_name,
    role |-> apiUser.role,
    user_id |-> apiUser.user_id ]

\* data.map((apiUser, index) => ...)
TransformList(list) == [i \in 1..Len(list) |-> TransformUser(list[i], i)]

\* Array.isArray(data) ? data.map(...) : []
TransformedUsers(resp) ==
  IF resp.shape = "array" THEN TransformList(resp.list) ELSE <<>>

\* The demo users, with shortened strings
mockUsers ==
  << [id |-> <<"1">>, name |-> <<"J", " ", "D">>, email |-> <<"j", "@", "e">>,
      username |-> <<"j">>, first_name |-> <<"J">>, last_name |-> <<"D">>,
      role |-> "admin", user_id |-> <<"j", "@", "e">>],
     [id |-> <<"2">>, name |-> <<"J", " ", "S">>, email |-> <<"s", "@", "e">>,
      username |-> <<"s">>, first_name |-> <<"J">>, last_name |-> <<"S">>,
      role |-> "user", user_id |-> <<"s", "@", "e">>] >>

\* isAdmin(): userRole || localStorage.getItem("userRole"), compared with "admin"
isAdmin ==
  LET storedRole == IF userRole # "" THEN userRole
                    ELSE GetItem(localStore, "userRole") IN
  storedRole = "admin"

NoList == [status |-> -1, isJson |-> FALSE, shape |-> "array", list |-> <<>>]
NoDelete == [user |-> <<>>, confirmed |-> FALSE, called |-> FALSE]

\* What a step of the users screen records about itself; the other screens
\* are not involved
ObserveUsers(op, list, del) ==
  /\ lastUserOp' = op
  /\ lastList' = list
  /\ lastDelete' = del
  /\ UNCHANGED <<dashVars, appVars, setVars, labVars>>

UsersShown == mountedPage = "admin" /\ usersMounted

\* Number of requests of the screen that are in flight
UserCalls == BagCardinality(listCalls) + BagCardinality(deleteCalls)

\* loadUsers() up to its await
LoadUsers ==
  IF ReadSession(localStore, sessionStore, "authToken") = ""
    THEN /\ users' = mockUsers
         /\ usersIsLoading' = FALSE
         /\ listCalls' = listCalls
    ELSE /\ usersIsLoading' = TRUE
         /\ listCalls' = Add(listCalls, [live |-> TRUE])
         /\ users' = users

\* The mount effect
UsersMount ==
  /\ mountedPage = "admin"
  /\ ~usersMounted
  /\ usersMounted' = TRUE
  /\ LoadUsers
  /\ UNCHANGED <<isDeletingUser, deleteCalls>>
  /\ ObserveUsers("mount", NoList, NoDelete)

\* The list GET resolves
LoadUsersResolve(c, resp) ==
  /\ BagIn(c, listCalls)
  /\ listCalls' = Settle(listCalls, c)
  /\ usersIsLoading' = FALSE
  /\ IF resp.status = 200 /\ resp.isJson
       THEN /\ users' = TransformedUsers(resp)
            /\ ObserveUsers("listOk", resp, NoDelete)
       ELSE /\ users' = mockUsers
            /\ ObserveUsers("listFail", resp, NoDelete)
  /\ UNCHANGED <<usersMounted, isDeletingUser, deleteCalls>>

\* Variant of the handler that does not ask for a confirmation
HandleDeleteUserUnconfirmed(i, confirmed) ==
  /\ UsersShown /\ ~usersIsLoading /\ i \in 1..Len(users) /\ isAdmin
  /\ UNCHANGED <<users, usersIsLoading, listCalls, usersMounted>>
  /\ IF ~isAdmin
       THEN /\ UNCHANGED <<isDeletingUser, deleteCalls>>
            /\ ObserveUsers("deleteNotAdmin", NoList,
                            [user |-> users[i].id, confirmed |-> FALSE, called |-> TRUE])
       ELSE IF ReadSession(localStore, sessionStore, "authToken") = ""
              THEN /\ isDeletingUser' = FALSE
                   /\ deleteCalls' = deleteCalls
                   /\ ObserveUsers("deleteNoToken", NoList,
                        [user |-> users[i].id, confirmed |-> confirmed, called |-> TRUE])
              ELSE /\ UserCalls < MaxUserCalls
                   /\ isDeletingUser' = TRUE
                   /\ deleteCalls' = Add(deleteCalls,
                        [user_id |-> IF users[i].email # <<>> THEN users[i].email
                                     ELSE users[i].user_id])
                   /\ ObserveUsers("delete", NoList,
                        [user |-> users[i].id, confirmed |-> confirmed, called |-> TRUE])

\* handleDeleteUser(user) up to its await; the button is rendered for an
\* admin in every row of the table, confirmed is the answer to window.confirm
HandleDeleteUser(i, confirmed) ==
  /\ UsersShown /\ ~usersIsLoading /\ i \in 1..Len(users) /\ isAdmin
  /\ UNCHANGED <<users, usersIsLoading, listCalls, usersMounted>>
  /\ IF ~isAdmin
       THEN /\ UNCHANGED <<isDeletingUser, deleteCalls>>
            /\ ObserveUsers("deleteNotAdmin", NoList,
                            [user |-> users[i].id, confirmed |-> FALSE, called |-> TRUE])
       ELSE IF ~confirmed
              THEN /\ UNCHANGED <<isDeletingUser, deleteCalls>>
                   /\ ObserveUsers("deleteDeclined", NoList,
                        [user |-> users[i].id, confirmed |-> FALSE, called |-> TRUE])
       ELSE IF ReadSession(localStore, sessionStore, "authToken") = ""
              THEN /\ isDeletingUser' = FALSE
                   /\ deleteCalls' = deleteCalls
                   /\ ObserveUsers("deleteNoToken", NoList,
                        [user |-> users[i].id, confirmed |-> TRUE, called |-> TRUE])
              ELSE /\ UserCalls < MaxUserCalls
                   /\ isDeletingUser' = TRUE
                   /\ deleteCalls' = Add(deleteCalls,
                        [user_id |-> IF users[i].email # <<>> THEN users[i].email
                                     ELSE users[i].user_id])
                   /\ ObserveUsers("delete", NoList,
                        [user |-> users[i].id, confirmed |-> TRUE, called |-> TRUE])

\* The delete POST resolves: a 200 reloads the list, everything else only
\* shows a message
DeleteResolve(d, status) ==
  /\ BagIn(d, deleteCalls)
  /\ deleteCalls' = Settle(deleteCalls, d)
  /\ isDeletingUser' = FALSE
  /\ IF status = 200
       THEN /\ LoadUsers
            /\ ObserveUsers("deleted", NoList, NoDelete)
       ELSE /\ UNCHANGED <<users, usersIsLoading, listCalls>>
            /\ ObserveUsers("deleteFail", NoList, NoDelete)
  /\ UNCHANGED usersMounted

\* The state of the screen before its mount effect
UsersInit ==
  /\ users = <<>>
  /\ usersIsLoading = TRUE
  /\ isDeletingUser = FALSE
  /\ usersMounted = FALSE
  /\ listCalls = EmptyBag
  /\ deleteCalls = EmptyBag
  /\ lastUserOp = "init"
  /\ lastList = NoList
  /\ lastDelete = NoDelete

\* The App after a navigation to the users screen: in a session with a token
\* and the role of the login response, or after a sign-up
AppOnAdmin(withToken, role) ==
  /\ localStore = IF withToken
                    THEN SetItem(SetItem(SetItem(SetItem(SetItem(EmptyStore,
                           "authToken", "t1"), "userName", <<"a">>),
                           "userEmail", <<"a", "@", "b">>), "userRole", role),
                           "currentPage", "admin")
                    ELSE EmptyStore
  /\ sessionStore = IF withToken
                      THEN EmptyStore
                      ELSE SetItem(SetItem(EmptyStore, "userName", <<"n">>),
                                   "currentPage", "dashboard")
  /\ mountedPage = "admin"
  /\ userName = IF withToken THEN <<"a">> ELSE <<"n">>
  /\ userEmail = IF withToken THEN <<"a", "@", "b">> ELSE <<>>
  /\ userRole = IF withToken THEN role ELSE ""
  /\ selectedLabId = ""
  /\ selectedCabinetId = ""
  /\ isCheckingAuth = FALSE
  /\ authIsLoading = FALSE
  /\ logins = EmptyBag
  /\ logouts = EmptyBag
  /\ lastAppOp = "navigate"
  /\ lastLogin = NoLogin
  /\ lastLogout = NoCall

UsersNext ==
  \/ UsersMount
  \/ \E c \in BagToSet(listCalls) : \E resp \in ListResponses : LoadUsersResolve(c, resp)
  \/ \E i \in 1..2 : \E confirmed \in BOOLEAN : HandleDeleteUser(i, confirmed)
  \/ \E d \in BagToSet(deleteCalls) : \E status \in DeleteStatuses : DeleteResolve(d, status)

\* The screens that a specification leaves alone stay as constructed
PagesInit == SetDetailsInit(FALSE) /\ LabsInit(FALSE) /\ UsersInit

\* The set-details screen on its own
InitSet ==
  /\ DashInitWith(FALSE)
  /\ \E withToken \in BOOLEAN : AppOnSetDetails(withToken)
  /\ \E active \in BOOLEAN : SetDetailsInit(active)
  /\ LabsInit(FALSE)
  /\ UsersInit

SpecSet == InitSet /\ [][SetNext]_vars

\* The lab screen on its own
InitLabs ==
  /\ DashInitWith(FALSE)
  /\ AppInit
  /\ SetDetailsInit(FALSE)
  /\ \E token \in BOOLEAN : LabsInit(token)
  /\ UsersInit

SpecLabs == InitLabs /\ [][LabsNext]_vars

\* The users screen on its own
InitUsers ==
  /\ DashInitWith(FALSE)
  /\ \E withToken \in BOOLEAN : \E role \in Roles \cup {"user"} : AppOnAdmin(withToken, role)
  /\ SetDetailsInit(FALSE)
  /\ LabsInit(FALSE)
  /\ UsersInit

SpecUsers == InitUsers /\ [][UsersNext]_vars

(***************************************************************************)
(* Specifications                                                          *)
(***************************************************************************)
DashInit == \E tok \in BOOLEAN : DashInitWith(tok)

\* The dashboard engine on its own; the App variables stay at their initial values
InitDash == DashInit /\ AppInit /\ PagesInit

SpecDash == InitDash /\ [][DashNext]_vars

\* The network settles every request that is outstanding
Resolve ==
  \E r \in inflight : FetchFailure(r) \/ \E data \in Responses : FetchSuccess(r, data)

\* The dashboard with a mount effect that runs and a network that answers
SpecDashLive ==
  InitDash /\ [][DashNext]_vars /\ WF_vars(MountEffect) /\ WF_vars(Resolve)

\* The App on its own; the dashboard variables stay at their initial values
InitApp == AppInit /\ DashInitWith(FALSE) /\ PagesInit

SpecApp == InitApp /\ [][AppNext]_vars


(***************************************************************************)
(* Properties of the dashboard engine                                      *)
(***************************************************************************)
\* Number of network requests a step has sent
Sent == inflight' \ ({ Abort(r) : r \in inflight } \cup inflight)

\* C1: the rows on screen were written by the outcome of the most recently
\* issued request that has resolved, and the stored next-cursor by the most
\* recently issued request that resolved with a response; no older (stale)
\* response is ever applied over a newer one.
C1_StaleNeverApplied ==
  /\ rowsFrom = lastResolved
  /\ nextKeyFrom = lastOk

\* A later request has resolved after an earlier one and its rows are shown
C1_Witness ==
  /\ lastResolved >= 2
  /\ Len(tableData) > 0
  /\ rowsFrom = lastResolved
  /\ nextKeyFrom = lastResolved

\* C2: a call of nextPage, previousPage or refresh made while a list fetch is
\* in flight changes neither currentPage nor cursorHistory, does not
\* increment the request-id counter and sends no request.
C2_InFlightNoOp ==
  [][ (lastOp' \in {"next", "prev", "refresh"} /\ inflight # {}) =>
        /\ currentPage' = currentPage
        /\ previousKeys' = previousKeys
        /\ currentRequestIdRef' = currentRequestIdRef
        /\ inflight' = inflight ]_vars

\* A page-change or refresh call has just been turned away during a fetch
C2_Witness ==
  /\ lastOp \in {"next", "prev", "refresh"}
  /\ ~lastAccepted
  /\ inflight # {}
  /\ toast = MsgWait

\* C3: len(cursorHistory) = currentPage - 1 and currentPage >= 1 in every
\* reachable state.
C3_PaginationInvariant ==
  /\ Len(previousKeys) = currentPage - 1
  /\ currentPage >= 1

\* previousPage has just been accepted from page 3
C3_Witness ==
  /\ lastOp = "prev"
  /\ lastAccepted
  /\ currentPage = 2
  /\ Len(previousKeys) = 1

\* C4 (as claimed): nextPage is accepted only when no fetch is in flight and
\* the last list response returned a next-cursor; when accepted it appends
\* that cursor, increments the page and fetches with that cursor; otherwise
\* (in particular after a failed fetch) it changes nothing and sends nothing.
C4_NextOnlyWithReturnedCursor ==
  [][ lastOp' = "next" =>
        /\ lastAccepted' =>
             /\ inflight = {}
             /\ Truthy(lastResponseKey)
             /\ previousKeys' = Append(previousKeys, lastResponseKey)
             /\ currentPage' = currentPage + 1
             /\ currentRequestIdRef' = currentRequestIdRef + 1
             /\ lastFetch'.nextPageKey = lastResponseKey
        /\ ~lastAccepted' =>
             /\ currentPage' = currentPage
             /\ previousKeys' = previousKeys
             /\ currentRequestIdRef' = currentRequestIdRef
             /\ inflight' = inflight
        /\ ~Truthy(lastResponseKey) => ~lastAccepted' ]_vars

\* C5: previousPage with no fetch in flight and currentPage > 1 pops the last
\* history entry, decrements the page and makes one fetch whose cursor is
\* history[newPage-2] (none for page 1); after an accepted nextPage it
\* restores the page number and the history the nextPage started from and
\* requests the cursor of that original page again.
C5_PreviousPage ==
  [][ (lastOp' = "prev" /\ inflight = {} /\ currentPage > 1) =>
        /\ lastAccepted'
        /\ Len(previousKeys) > 0
        /\ previousKeys' = SubSeq(previousKeys, 1, Len(previousKeys) - 1)
        /\ currentPage' = currentPage - 1
        /\ currentRequestIdRef' = currentRequestIdRef + 1
        /\ lastFetch'.pageNumber = currentPage'
        /\ lastFetch'.nextPageKey =
             (IF currentPage' = 1 THEN NullKey ELSE previousKeys'[currentPage' - 1])
        /\ hasToken =>
             /\ Cardinality(Sent) = 1
             /\ \A r \in Sent : r.nextPageKey = lastFetch'.nextPageKey
        /\ prevNav.op = "next" =>
             /\ currentPage' = prevNav.currentPage
             /\ previousKeys' = prevNav.previousKeys
             /\ lastFetch'.nextPageKey = prevNav.cursor ]_vars

\* previousPage accepted right after a nextPage from page 2: back on page 2,
\* history of one cursor, request carrying that cursor
C5_Witness ==
  /\ lastOp = "prev"
  /\ lastAccepted
  /\ prevNav.op = "prev"
  /\ prevNav.before = "next"
  /\ prevNav.currentPage = 3
  /\ currentPage = 2
  /\ Len(previousKeys) = 1
  /\ lastFetch.nextPageKey = previousKeys[1]
  /\ \E r \in inflight : r.id = lastFetch.id /\ r.nextPageKey = previousKeys[1]

\* C6: refresh with no fetch in flight sets currentPage to 1, empties the
\* cursor history and makes exactly one fetch with no cursor, whatever the
\* pagination state was.
C6_Refresh ==
  [][ (lastOp' = "refresh" /\ inflight = {}) =>
        /\ lastAccepted'
        /\ currentPage' = 1
        /\ previousKeys' = <<>>
        /\ currentRequestIdRef' = currentRequestIdRef + 1
        /\ lastFetch'.nextPageKey = NullKey
        /\ lastFetch'.pageNumber = 1
        /\ hasToken =>
             /\ Cardinality(Sent) = 1
             /\ \A r \in Sent : r.nextPageKey = NullKey /\ r.pageNumber = 1 ]_vars

\* refresh accepted from a page beyond the first
C6_Witness ==
  /\ lastOp = "refresh"
  /\ lastAccepted
  /\ prevNav.op = "refresh"
  /\ prevNav.currentPage > 1
  /\ currentPage = 1
  /\ previousKeys = <<>>
  /\ \E r \in inflight : r.id = lastFetch.id /\ r.nextPageKey = NullKey

(***************************************************************************)
(* Properties of the login, logout and session placement                   *)
(***************************************************************************)
HasNoSession(store) == (DOMAIN store) \cap SessionKeys = {}

\* The part of an email before its first '@', stated without the scan
BeforeAt(email) ==
  CHOOSE p \in { SubSeq(email, 1, n) : n \in 0..Len(email) } :
    /\ \A i \in 1..Len(p) : p[i] # "@"
    /\ Len(p) = Len(email) \/ email[Len(p) + 1] = "@"

C8_LoginSuccessPopulatesSession ==
  [][ lastAppOp' = "loginOk" =>
        LET store == IF lastLogin'.remember THEN localStore' ELSE sessionStore'
            role == IF lastLogin'.role = "" THEN "user" ELSE lastLogin'.role IN
        /\ lastLogin'.token # ""
        /\ GetItem(store, "authToken") = lastLogin'.token
        /\ GetItem(store, "userName") = BeforeAt(lastLogin'.email)
        /\ GetItem(store, "userEmail") = lastLogin'.email
        /\ GetItem(store, "userRole") = role
        /\ userName' = BeforeAt(lastLogin'.email)
        /\ userEmail' = lastLogin'.email
        /\ userRole' = role
        /\ mountedPage' = "dashboard" ]_vars

\* A login of "ab@c" without remember-me and without a role in the response
\* has succeeded
C8_Witness ==
  /\ lastAppOp = "loginOk"
  /\ lastLogin.email = <<"a", "b", "@", "c">>
  /\ ~lastLogin.remember
  /\ lastLogin.role = ""
  /\ GetItem(sessionStore, "authToken") = lastLogin.token
  /\ GetItem(sessionStore, "userName") = <<"a", "b">>
  /\ userRole = "user"
  /\ mountedPage = "dashboard"

\* C9 (as claimed): a successful login with remember-me = r writes its
\* session keys to the durable store only when r is true and to the
\* ephemeral store only when r is false; the other store is not written.
C9_SessionPlacement ==
  [][ lastAppOp' = "loginOk" =>
        IF lastLogin'.remember
          THEN /\ sessionStore' = sessionStore
               /\ SessionKeys \subseteq DOMAIN localStore'
          ELSE /\ localStore' = localStore
               /\ SessionKeys \subseteq DOMAIN sessionStore' ]_vars

\* C10: when a logout completes - after any outcome of the logout call or
\* without a call when there is no token - authToken, userName, userEmail,
\* userRole and currentPage are absent from both stores and the auth screen
\* is mounted.
C10_LogoutDestroysSession ==
  [][ lastAppOp' = "logoutDone" =>
        /\ HasNoSession(localStore')
        /\ HasNoSession(sessionStore')
        /\ mountedPage' = "auth"
        /\ userName' = <<>> /\ userEmail' = <<>> /\ userRole' = "" ]_vars

\* A logout whose call was rejected by the network has completed after a
\* successful login
C10_Witness ==
  /\ lastAppOp = "logoutDone"
  /\ lastLogout = 0
  /\ mountedPage = "auth"
  /\ HasNoSession(localStore) /\ HasNoSession(sessionStore)

\* C11: in the login flow every HTTP response whose content type is not JSON
\* is classified as a config error (isConfigError), whatever its status
\* code, 401, 422 and 5xx included.
C11_NonJsonIsConfigError ==
  [][ (lastAppOp' \in {"loginOk", "loginFail"} /\ lastLogin'.status # 0
         /\ ~lastLogin'.isJson)
        => lastLogin'.isConfigError ]_vars

(***************************************************************************)
(* Properties of the log-collection form                                   *)
(***************************************************************************)
\* The form as it stands cannot be submitted, in the words of the claim
InvalidForm ==
  \/ Len(Trim(taskDescription)) < 5
  \/ startDate = NoValue \/ startTime = NoValue
  \/ endDate = NoValue \/ endTime = NoValue
  \/ DateTime(startDate, startTime) > now
  \/ DateTime(endDate, endTime) > now
  \/ DateTime(startDate, startTime) >= DateTime(endDate, endTime)
  \/ (~logTypes.CH /\ ~logTypes.HAN)
  \/ (logTypes.HAN /\ hanLogFormat \notin HanLogFormats)

\* The step is a call of handleRetrieveLogs
Submitted == lastSetOp' \notin {"edit", "postOk", "postFail", "timer", "tick", "leave"}

\* C12: a log-collection submission issues no network request when the
\* trimmed description is shorter than 5 characters, a start or end
\* date/time is missing, start or end is later than the wall clock,
\* start >= end, neither CH nor HAN is selected, or HAN is selected without
\* a format from {.pcap, .dcf, .cubx}; it issues exactly one POST when none
\* of these holds and a token is present.
C12_SubmissionValidation ==
  [][ /\ InvalidForm => BagCardinality(posts') <= BagCardinality(posts)
      /\ (Submitted /\ ~InvalidForm
            /\ ReadSession(localStore, sessionStore, "authToken") # "")
           => BagCardinality(posts') = BagCardinality(posts) + 1 ]_vars

\* A form whose end time is the current minute and whose HAN format is
\* chosen has been submitted and its POST is in flight
C12_Witness ==
  /\ lastSetOp = "submit"
  /\ BagCardinality(posts) = 1
  /\ logTypes.HAN /\ hanLogFormat = ".dcf"
  /\ DateTime(endDate, endTime) = now
  /\ Len(Trim(taskDescription)) = 5

\* The response is one of the errors of the claim: 401, 404, 400/5xx, any
\* other non-2xx status, a non-JSON body or a network failure (status 0)
IsPostError(r) == r.status = 0 \/ r.status < 200 \/ r.status > 299 \/ ~r.isJson

\* C13: after a log-collection POST: on success the delayed navigation is
\* armed and when the delay expires the router mounts the dashboard; on any
\* error no navigation happens and none is armed, every form field keeps its
\* value and the submit control is enabled again.
C13_AfterPost ==
  [][ /\ (lastSetOp' \in {"postOk", "postFail"} /\ ~IsPostError(lastPost'))
           => (timers' = timers + 1 /\ mountedPage' = mountedPage)
      /\ lastSetOp' = "timer" => mountedPage' = "dashboard"
      /\ (lastSetOp' \in {"postOk", "postFail"} /\ IsPostError(lastPost'))
           => /\ mountedPage' = mountedPage
              /\ timers' = timers
              /\ formVars' = formVars
              /\ ~isSubmitting' ]_vars

\* A POST was answered 200 with an HTML body: the filled form is still shown
\* and can be submitted again
C13_Witness ==
  /\ lastSetOp = "postFail"
  /\ lastPost.status = 200 /\ ~lastPost.isJson
  /\ mountedPage = "setDetails"
  /\ Len(Trim(taskDescription)) = 5 /\ DatesFilled /\ logTypes.CH
  /\ ~isSubmitting
  /\ timers = 0

(***************************************************************************)
(* Properties of the lab screen                                            *)
(***************************************************************************)
\* Status of a cabinet of the inventory, in the words of the claim
ExpectedStatus(lls) ==
  IF ~lls.is_active THEN "gray"
  ELSE IF \E i \in 1..Len(lls.meter_set) :
            lls.meter_set[i] \in {"Commissioned", "commissioned"} THEN "green"
  ELSE "yellow"

\* C14: every cabinet shown on the lab screen, those with a null device-type
\* tag included, is classified: active and commissioned green, active and
\* not commissioned yellow, not active gray whatever its commissioning state.
C14_CabinetStatus ==
  (LabsShown /\ selectedLab # "" /\ cabinetData # <<>>)
    => \A i \in 1..Len(Sets) :
         GetStatusColor(Sets[i], cabinetData)
           = ExpectedStatus(setsFrom.data[Sets[i].number])

\* C15: whenever an inventory fetch for the selected lab fails, the
\* manufacturer facets, the variant facets, the cabinet records and the set
\* list are all empty afterwards, also when another lab had loaded before.
C15_FailureClearsAll ==
  [][ (lastLabOp' = "llsFail" /\ lastLls'.lab = selectedLab')
        => /\ chManufactures' = <<>>
           /\ chVariants' = <<>>
           /\ cabinetData' = <<>>
           /\ allSets' = <<>> ]_vars

(***************************************************************************)
(* Properties of the users screen                                          *)
(***************************************************************************)
\* A step sends a request to the delete endpoint
DeleteSent == BagCardinality(deleteCalls') > BagCardinality(deleteCalls)

\* C16: the delete endpoint is called only by a handleDeleteUser call of a
\* session whose role is "admin" and whose confirmation was accepted; a call
\* of the handler with another role or with a declined confirmation sends
\* no request of any kind and leaves the user list as it is.
C16_DeleteGuard ==
  [][ /\ DeleteSent => (userRole = "admin" /\ lastDelete'.called /\ lastDelete'.confirmed)
      /\ (lastDelete'.called /\ (userRole # "admin" \/ ~lastDelete'.confirmed))
           => (deleteCalls' = deleteCalls /\ listCalls' = listCalls /\ users' = users)
    ]_vars

\* An admin has declined the confirmation for a user of a loaded list while
\* an earlier, confirmed delete of theirs is still in flight
C16_Witness ==
  /\ userRole = "admin"
  /\ lastDelete.called /\ ~lastDelete.confirmed
  /\ BagCardinality(deleteCalls) = 1
  /\ users # <<>> /\ users # mockUsers

\* C17: a successful list response yields one table entry per user of the
\* response, the same for the three shapes of the body (bare array, users
\* property, data property).
C17_Normalization ==
  [][ lastUserOp' = "listOk"
        => /\ Len(users') = Len(lastList'.list)
           /\ users' = TransformList(lastList'.list) ]_vars

(***************************************************************************)
(* Properties of the dashboard's cursor history and request guard          *)
(***************************************************************************)
\* C18: every entry of the cursor history is the next-cursor that the server
\* returned with the page of its position: the first entry came with page 1,
\* the second with page 2, and so on, whatever handlers, poll ticks and
\* fetch outcomes (failures included) have happened.
C18_HistoryProvenance ==
  \A i \in 1..Len(previousKeys) : keyPages[i] = i

\* C19: a poll tick that finds no fetch in flight makes exactly one fetch, for
\* the displayed page and with the cursor previousKeys[currentPage-2] of the
\* pagination state at the time of the tick (no cursor on page 1), and leaves
\* currentPage and the cursor history as they are; a tick that finds a fetch
\* in flight sends nothing and changes nothing.
C19_PollTick ==
  [][ lastOp' = "poll" =>
        /\ inflight = {} =>
             /\ currentRequestIdRef' = currentRequestIdRef + 1
             /\ lastFetch'.pageNumber = currentPage
             /\ lastFetch'.nextPageKey = CursorOfPage(currentPage, previousKeys)
             /\ hasToken =>
                  \E r \in inflight' :
                    /\ Sent = {r}
                    /\ r.pageNumber = currentPage
                    /\ r.nextPageKey = CursorOfPage(currentPage, previousKeys)
             /\ currentPage' = currentPage
             /\ previousKeys' = previousKeys
        /\ inflight # {} =>
             /\ UNCHANGED <<inflight, currentRequestIdRef, isFetchingRef, isLoading>>
             /\ UNCHANGED <<currentPage, previousKeys, currentNextKey, tableData, toast>>
    ]_vars

\* A tick on page 2 has just sent the request that reloads page 2
C19_Witness ==
  /\ lastOp = "poll"
  /\ lastAccepted
  /\ currentPage = 2
  /\ \E r \in inflight :
       ~r.aborted /\ r.pageNumber = 2 /\ r.nextPageKey = previousKeys[1]
                  /\ r.id = currentRequestIdRef

\* List requests that are outstanding and have not been aborted
Outstanding == { r \in inflight : ~r.aborted }

\* C20: list requests are serialized: a fetch starts only in a state whose
\* guard isFetchingRef is clear, the start aborts every request that is still
\* outstanding, at most one request that has not been aborted is outstanding
\* at any time, and the guard is set in every state in which a request is
\* outstanding.
C20_Serialized ==
  /\ [](Cardinality(Outstanding) <= 1)
  /\ [](inflight # {} => isFetchingRef)
  /\ [][ currentRequestIdRef' # currentRequestIdRef =>
           /\ ~isFetchingRef
           /\ \A r \in inflight : Abort(r) \in inflight'
           /\ Outstanding' \subseteq Sent ]_vars

\* The request of a page change is outstanding, behind the guard, after an
\* earlier request has resolved
C20_Witness ==
  /\ Cardinality(Outstanding) = 1
  /\ isFetchingRef
  /\ currentRequestIdRef >= 2
  /\ lastOp \in {"next", "prev", "refresh", "poll"}

\* The request that the step has resolved, when it has resolved one
Resolved == inflight \ inflight'

\* C21: the failure of a list request clears the rows only when that request
\* is the latest issued one; the failure or abort of a request that a newer
\* one has superseded leaves the rows, the next-cursor and the guard of the
\* newer request as they are.
C21_StaleFailureLeavesRows ==
  [][ lastOp' = "failure" =>
        \A r \in Resolved :
          IF r.id = currentRequestIdRef
            THEN tableData' = <<>> /\ currentNextKey' = currentNextKey
            ELSE /\ tableData' = tableData
                 /\ currentNextKey' = currentNextKey
                 /\ isFetchingRef' = isFetchingRef ]_vars

\* The latest request has failed after an earlier one had filled the table:
\* the rows are gone, the next-cursor of the earlier response is kept
C21_Witness ==
  /\ lastOp = "failure"
  /\ rowsFrom = currentRequestIdRef
  /\ currentRequestIdRef >= 2
  /\ lastOk >= 1
  /\ inflight = {}
  /\ tableData = <<>>
  /\ Truthy(currentNextKey)

(***************************************************************************)
(* Properties of the login flow, the router and the session                *)
(***************************************************************************)
\* Login POSTs that are in flight
Posts(ls) == BagCardinality(ls)

\* The step has resolved a login of the AuthPage that is on screen
LiveResolved ==
  \E l \in BagToSet(logins) : l.live /\ CopiesIn(l, logins') < CopiesIn(l, logins)

\* C22: the login flow is Idle -> Submitting -> {Success, Failure}: a
\* submission with both fields filled sends exactly one POST and starts the
\* loading, nothing else ever sends a login POST (no retry), every attempt of
\* the form on screen that resolves ends the loading, and after a failure the
\* auth screen is still mounted, idle, for another attempt.
C22_LoginStateMachine ==
  [][ /\ lastAppOp' = "loginSubmit"
           => (~authIsLoading /\ authIsLoading' /\ Posts(logins') = Posts(logins) + 1)
      /\ Posts(logins') > Posts(logins) => lastAppOp' = "loginSubmit"
      /\ lastAppOp' = "loginRejected" => (logins' = logins /\ ~authIsLoading')
      /\ (lastAppOp' \in {"loginOk", "loginFail"} /\ LiveResolved)
           => (~authIsLoading' /\ Posts(logins') = Posts(logins) - 1)
      /\ (lastAppOp' = "loginFail" /\ LiveResolved)
           => (mountedPage' = "auth" /\ ~isCheckingAuth'
               /\ \A l \in BagToSet(logins') : ~l.live)
    ]_vars

\* The attempt of the form on screen was refused with 401: the form is idle
\* again, on the auth screen, with nothing stored
C22_Witness ==
  /\ lastAppOp = "loginFail"
  /\ lastLogin.class = "AuthError"
  /\ ~authIsLoading
  /\ mountedPage = "auth"
  /\ logins = EmptyBag
  /\ localStore = EmptyStore /\ sessionStore = EmptyStore

C24_RowsOfShownPage ==
  (inflight = {} /\ tableData # <<>>)
    => /\ rowsFrom = nextKeyFrom
       /\ lastFetch.id = rowsFrom
       /\ lastFetch.pageNumber = currentPage
       /\ nextKeyPage = currentPage
       /\ lastFetch.nextPageKey = CursorOfPage(currentPage, previousKeys)
       /\ \A i \in 1..Len(tableData) :
            tableData[i].sNo = (currentPage - 1) * DEFAULT_LIMIT + i

\* Page 2 is shown again, with rows, after a visit of page 3 and a step back
C24_Witness ==
  /\ inflight = {}
  /\ tableData # <<>>
  /\ currentPage = 2
  /\ lastOp = "success"
  /\ prevNav.op = "prev"
  /\ lastFetch.nextPageKey = previousKeys[1]

\* C25: whenever a screen other than auth is mounted, an auth token is
\* present in localStorage or in sessionStorage.
C25_TokenBehindScreens ==
  mountedPage # "auth" => ReadSession(localStore, sessionStore, "authToken") # ""

C27_SetDetailsHasItsSet ==
  mountedPage = "setDetails" => (selectedLabId # "" /\ selectedCabinetId # "")


C28_InventoryOfSelectedLab ==
  /\ (LabsShown /\ selectedLab # "" /\ allSets # <<>>) => setsFrom.lab = selectedLab
  /\ lastOpened # NoOpen => setsFrom.lab = lastOpened.labId

====
